---- MODULE Spec2Model ----
(***************************************************************************)
(* SCP-Tools: the anonymizer (src/src/scp_anonymizer.py), the verifier     *)
(* (src/src/anonymization_verifier.py) and the reader                      *)
(* (src/src/scp_reader.py) as one state machine over byte buffers.         *)
(* A buffer is a sequence of bytes 0..255; Python offsets are 0-based, so  *)
(* byte i of the code is element i+1 of the sequence.                      *)
(***************************************************************************)
EXTENDS Integers, Sequences, FiniteSets, TLC

VARIABLES
    pc,             \* position in the read / anonymize / save / verify / parse workflow
    original,       \* bytes of the input file on disk
    anonymous_id,   \* SCPAnonymizer.anonymous_id, ASCII-encoded
    data,           \* SCPAnonymizer.data (bytearray)
    changes_made,   \* SCPAnonymizer.changes_made
    tags_seen,      \* history: the tags the Section 1 walk of the anonymizer visited
    output,         \* bytes written by save_anonymized
    with_original,  \* whether the verifier was given the original file
    report,         \* AnonymizationVerifier: issues, warnings, passed_checks
    readers,        \* the SCPReader on the input (orig) and on the output (anon)
    options,        \* the keyword arguments the caller passes to SCPAnonymizer(...)
    rerun,          \* a second SCPAnonymizer, run on the output of the first
    call            \* a direct call of find_and_replace_text: arguments and count

----------------------------------------------------------------------------
(* Bounds of the model *)

\* largest number of tags in the generated Section 1 payloads
MaxTags == 2

\* longest buffer, and longest search and replacement, of the direct calls
\* of find_and_replace_text
MaxBuffer == 4
MaxSearch == 2

----------------------------------------------------------------------------
(* Python byte-sequence primitives *)

Min(a, b) == IF a <= b THEN a ELSE b
Max(a, b) == IF a >= b THEN a ELSE b

\* d[a:b] for 0 <= a, clamped to the buffer like a Python slice
Slice(d, a, b) ==
    LET hi == Min(b, Len(d))
    IN  IF a >= hi THEN << >> ELSE SubSeq(d, a + 1, hi)

\* d[a:b] = r on a bytearray: the slice is replaced, the buffer is resized
\* when len(r) differs from the length of the slice
SetSlice(d, a, b, r) ==
    LET lo == Min(a, Len(d))
        hi == Max(lo, Min(b, Len(d)))
    IN  Slice(d, 0, lo) \o r \o Slice(d, hi, Len(d))

\* d[i] = v on a bytearray, for an index inside the buffer
SetByte(d, i, v) == [d EXCEPT ![i + 1] = v]

\* struct.unpack('<H'), ('>H'), ('<I') of the bytes at p; the caller has
\* established that the slice has the full width
U16LE(d, p) == d[p + 1] + 256 * d[p + 2]
U16BE(d, p) == 256 * d[p + 1] + d[p + 2]

\* The code only compares a u32 with buffer lengths and adds it to offsets, so
\* a value of 2^30 or more is represented by a value of at least 63 * 2^24,
\* which keeps every such comparison and stays inside TLC's integers.
U32LE(d, p) ==
    d[p + 1] + 256 * d[p + 2] + 65536 * d[p + 3] + 16777216 * Min(d[p + 4], 63)

\* struct.pack('<H'), ('>H'), ('<I')
PackU16LE(n) == << n % 256, (n \div 256) % 256 >>
PackU16BE(n) == << (n \div 256) % 256, n % 256 >>
PackU32LE(n) ==
    << n % 256, (n \div 256) % 256, (n \div 65536) % 256, (n \div 16777216) % 256 >>

\* b'\x00' * n, and (pattern * k)[:n]
Zeros(n) == [i \in 1..Max(n, 0) |-> 0]
Repeat(pattern, n) == [i \in 1..Max(n, 0) |-> pattern[((i - 1) % Len(pattern)) + 1]]

\* str.encode('ascii') of a string of decimal digits, given as its digits
Digits(s) == [i \in 1..Len(s) |-> 48 + s[i]]

\* str.encode('utf-16le') of an ASCII string, given ASCII-encoded
Utf16le(s) == [i \in 1..(2 * Len(s)) |-> IF i % 2 = 1 THEN s[(i + 1) \div 2] ELSE 0]

\* bytes.find(s, from): the lowest index >= from where s occurs, or -1
Find(d, s, from) ==
    LET hits == { i \in from..(Len(d) - Len(s)) : SubSeq(d, i + 1, i + Len(s)) = s }
    IN  IF hits = {} THEN -1 ELSE CHOOSE i \in hits : \A j \in hits : i <= j

\* s in d
Contains(d, s) == Find(d, s, 0) # -1

----------------------------------------------------------------------------
(* CRC-CCITT *)

RECURSIVE Xor(_, _)
Xor(a, b) ==
    IF a = 0 THEN b
    ELSE IF b = 0 THEN a
    ELSE (((a % 2) + (b % 2)) % 2) + 2 * Xor(a \div 2, b \div 2)

\* x ^ k2 for a power of two k2: bit k2 of x is flipped
FlipBit(x, k2) == IF (x \div k2) % 2 = 1 THEN x - k2 ELSE x + k2

\* x ^ 0x8005, the polynomial of CRC-16/ANSI instead of that of CRC-CCITT
XorPolyAnsi(x) == FlipBit(FlipBit(FlipBit(x, 32768), 4), 1)

\* x ^ 0x1021, the polynomial being 2^12 + 2^5 + 2^0
XorPoly(x) == FlipBit(FlipBit(FlipBit(x, 4096), 32), 1)

\* the inner loop, n rounds: shift left by 1, XOR the polynomial when the
\* high bit was set, mask to 16 bits
RECURSIVE CrcRounds(_, _)
CrcRounds(crc, n) ==
    IF n = 0 THEN crc
    ELSE IF crc >= 32768
    THEN CrcRounds(XorPoly(crc * 2) % 65536, n - 1)
    ELSE CrcRounds((crc * 2) % 65536, n - 1)

\* the outer loop over bytes lo..hi of d in order, crc being the register on
\* entry; the range is split in halves, the left half being processed first
RECURSIVE CrcRange(_, _, _, _)
CrcRange(d, lo, hi, crc) ==
    IF lo > hi THEN crc
    ELSE IF lo = hi THEN CrcRounds(Xor(crc, d[lo] * 256), 8)
    ELSE LET mid  == (lo + hi) \div 2
             left == CrcRange(d, lo, mid, crc)
         IN  \* the register is a 16-bit value; testing it evaluates the left half first
             IF left > 65535 THEN left ELSE CrcRange(d, mid + 1, hi, left)

calculate_crc_ccitt(d) == CrcRange(d, 1, Len(d), 65535)

\* update_file_size: self.data[2:6] = struct.pack('<I', len(self.data))
update_file_size(d) == SetSlice(d, 2, 6, PackU32LE(Len(d)))

\* update_crc: self.data[0:2] = struct.pack('<H', crc(self.data[2:]))
update_crc(d) ==
    SetSlice(d, 0, 2, PackU16LE(calculate_crc_ccitt(Slice(d, 2, Len(d)))))

----------------------------------------------------------------------------
(* SCPAnonymizer *)

\* an entry of changes_made: the message kind, the id or tag it names, a count
Change(what, arg, n) == [what |-> what, arg |-> arg, n |-> n]

\* replace_bytes[:len(search_bytes)] without the NUL padding
ReplaceUnpadded(search_bytes, replace_bytes) ==
    Slice(replace_bytes, 0, Len(search_bytes))

\* replace_bytes[:len(search_bytes)], NUL-padded to len(search_bytes)
ReplacePadded(search_bytes, replace_bytes) ==
    LET cut == Slice(replace_bytes, 0, Len(search_bytes))
    IN  cut \o Zeros(Len(search_bytes) - Len(cut))

RECURSIVE FindReplaceFrom(_, _, _, _, _)
FindReplaceFrom(d, search_bytes, replace_bytes, index, count) ==
    LET at == Find(d, search_bytes, index)
    IN  IF at = -1
        THEN [data |-> d, count |-> count]
        ELSE FindReplaceFrom(
                 SetSlice(d, at, at + Len(search_bytes),
                          ReplacePadded(search_bytes, replace_bytes)),
                 search_bytes, replace_bytes, at + Len(search_bytes), count + 1)

find_and_replace_text(d, search_bytes, replace_bytes) ==
    FindReplaceFrom(d, search_bytes, replace_bytes, 0, 0)

\* the hard-coded list of sample patient ids, as digit strings
original_ids ==
    << Digits(<<1, 9, 7, 0, 0, 1, 1, 3, 8, 9, 9, 4>>),
       Digits(<<1, 9, 1, 0, 1, 0, 1, 0, 1, 0, 1, 0>>),
       Digits(<<1, 2, 3, 4, 5, 6, 7, 8, 9>>),
       Digits(<<1, 9, 7, 0, 0, 1, 1, 3, 8, 9>>),
       Digits(<<1, 9, 1, 0, 1, 0, 1, 0, 1, 0>>),
       Digits(<<1, 2, 3, 4, 5, 6, 7, 8>>) >>

\* b'test' and b'ANON'
TestBytes == <<116, 101, 115, 116>>
AnonBytes == <<65, 78, 79, 78>>

\* b'REMOVED\x00'
RemovedBytes == <<82, 69, 77, 79, 86, 69, 68, 0>>

\* the keys of sensitive_tags
sensitive_tags == {2, 6, 7, 8, 9, 10}

\* the loop over original_ids: each id is replaced as ASCII, then as UTF-16LE
RECURSIVE ReplaceIds(_, _, _, _)
ReplaceIds(d, changes, anon, i) ==
    IF i > Len(original_ids) THEN [data |-> d, changes |-> changes]
    ELSE LET a  == find_and_replace_text(d, original_ids[i], anon)
             c1 == IF a.count > 0
                   THEN Append(changes, Change("Replaced ID", i, a.count))
                   ELSE changes
             u  == find_and_replace_text(a.data, Utf16le(original_ids[i]), Utf16le(anon))
             c2 == IF u.count > 0
                   THEN Append(c1, Change("Replaced ID (UTF-16)", i, u.count))
                   ELSE c1
         IN  ReplaceIds(u.data, c2, anon, i + 1)

\* a patient id written without the NUL padding: anonymous_id[:tag_length] alone
anon_bytes_unpadded(anon, tag_length) == Slice(anon, 0, tag_length)

\* anon_bytes: anonymous_id[:tag_length] + b'\x00' * (tag_length - len(anon_bytes))
anon_bytes(anon, tag_length) ==
    LET cut == Slice(anon, 0, tag_length)
    IN  cut \o Zeros(tag_length - Len(cut))

\* the body of the tag loop for one sensitive tag at `pointer`; raised is TRUE
\* when the code leaves the body through its except clause
AnonymizeTag(d, pointer, tag, tag_length, anon, changes) ==
    LET value_start == pointer + 3
        value_end   == Min(value_start + tag_length, Len(d))
        done(nd)    == [data |-> nd, raised |-> FALSE,
                        changes |-> Append(changes, Change("Anonymized", tag, 1))]
    IN  IF tag = 2 THEN
            done(SetSlice(d, value_start, value_end, anon_bytes(anon, tag_length)))
        ELSE IF tag \in {6, 7, 8, 9} THEN
            LET removed_bytes ==
                    Slice(Repeat(RemovedBytes, 8 * ((tag_length \div 8) + 1)), 0, tag_length)
            IN  done(SetSlice(d, value_start, value_end, removed_bytes))
        ELSE IF tag = 10 /\ tag_length >= 4 THEN
            LET d1 == SetSlice(d, value_start, value_start + 2, PackU16BE(1900))
            IN  IF value_start + 2 >= Len(d1)
                THEN [data |-> d1, raised |-> TRUE, changes |-> changes]
                ELSE LET d2 == SetByte(d1, value_start + 2, 1)
                     IN  IF value_start + 3 >= Len(d2)
                         THEN [data |-> d2, raised |-> TRUE, changes |-> changes]
                         ELSE done(SetByte(d2, value_start + 3, 1))
        ELSE [data |-> d, raised |-> FALSE, changes |-> changes]

\* _anonymize_section_1_tags: the while loop from `pointer` up to `end`
RECURSIVE TagLoop(_, _, _, _, _, _)
TagLoop(d, pointer, end, anon, changes, seen) ==
    IF ~(pointer < end - 3) \/ d[pointer + 1] = 255
    THEN [data |-> d, changes |-> changes, seen |-> seen]
    ELSE LET tag        == d[pointer + 1]
             tag_length == U16LE(d, pointer + 1)
             r  == IF tag \in sensitive_tags
                   THEN AnonymizeTag(d, pointer, tag, tag_length, anon, changes)
                   ELSE [data |-> d, raised |-> FALSE, changes |-> changes]
             s  == Append(seen, [tag |-> tag, at |-> pointer, len |-> tag_length,
                                 raised |-> r.raised])
         IN  TagLoop(r.data, IF r.raised THEN pointer + 1 ELSE pointer + 3 + tag_length,
                     end, anon, r.changes, s)

anonymize_section_1_tags(d, start_offset, length, anon, changes) ==
    TagLoop(d, start_offset, Min(start_offset + length, Len(d)), anon, changes, << >>)

\* _anonymize_section_1: the best-effort scan for the header of Section 1
RECURSIVE SectionScan(_, _, _, _)
SectionScan(d, pointer, anon, changes) ==
    IF ~(pointer < Len(d) - 10)
    THEN [data |-> d, changes |-> changes, seen |-> << >>]
    ELSE LET section_id   == U16LE(d, pointer)
             section_size == U32LE(d, pointer + 2)
         IN  IF section_id = 1 /\ section_size < Len(d)
             THEN anonymize_section_1_tags(d, pointer + 8, section_size - 8, anon, changes)
             ELSE IF section_size > 0 /\ section_size < Len(d)
             THEN SectionScan(d, pointer + section_size, anon, changes)
             ELSE SectionScan(d, pointer + 1, anon, changes)

anonymize_section_1(d, anon, changes) == SectionScan(d, 6, anon, changes)

\* anonymize_patient_data: the id list, then b'test', then Section 1
anonymize_patient_data(d, anon, changes) ==
    LET ids == ReplaceIds(d, changes, anon, 1)
        t   == find_and_replace_text(ids.data, TestBytes, AnonBytes)
        c   == IF t.count > 0
               THEN Append(ids.changes, Change("Replaced test", 0, t.count))
               ELSE ids.changes
    IN  anonymize_section_1(t.data, anon, c)

----------------------------------------------------------------------------
(* AnonymizationVerifier: the Section 1 tag policy *)

\* an entry of issues, warnings or passed_checks: the message kind and the
\* tag, section id, offset or count the message names
Finding(what, at) == [what |-> what, at |-> at]

\* bytes.decode('ascii', errors='ignore').rstrip('\x00')
AsciiIgnore(v) == SelectSeq(v, LAMBDA b : b < 128)

RStripNul(t) ==
    LET keep == { i \in 1..Len(t) : t[i] # 0 }
    IN  IF keep = {} THEN << >>
        ELSE SubSeq(t, 1, CHOOSE i \in keep : \A j \in keep : j <= i)

DecodeText(v) == RStripNul(AsciiIgnore(v))

IsAlpha(b) == (b >= 65 /\ b <= 90) \/ (b >= 97 /\ b <= 122)
IsDigit(b) == b >= 48 /\ b <= 57

\* str.isalnum() in the place of str.isalpha(): digits count as letters
IsAlnumStr(t) == Len(t) > 0 /\ \A i \in 1..Len(t) : IsAlpha(t[i]) \/ IsDigit(t[i])

\* str.isalpha() of an ASCII string
IsAlphaStr(t) == Len(t) > 0 /\ \A i \in 1..Len(t) : IsAlpha(t[i])

AllZero(v) == \A i \in 1..Len(v) : v[i] = 0

\* datetime.now().year
CurrentYear == 2026

\* the keys of tag_names
tag_names == {0, 1, 2, 5, 6, 7, 8, 9, 10, 21, 22, 25, 26, 30, 31}

\* _verify_tag: the findings one tag adds; r holds issues and warnings
verify_tag(tag, value, r) ==
    LET issue(what)   == [r EXCEPT !.issues = Append(@, Finding(what, tag))]
        warning(what) == [r EXCEPT !.warnings = Append(@, Finding(what, tag))]
        text          == DecodeText(value)
    IN  IF tag \notin tag_names THEN r
        ELSE IF tag = 2 THEN
            IF Slice(text, 0, 4) = AnonBytes \/ Len(text) = 0 THEN r
            ELSE issue("contains real ID")
        ELSE IF tag \in {0, 1, 6, 7, 8, 9} THEN
            IF Contains(text, SubSeq(RemovedBytes, 1, 7)) \/ Len(text) = 0 THEN r
            ELSE IF Len(text) > 2 /\ IsAlphaStr(text) THEN issue("possible real name")
            ELSE warning("unusual value")
        ELSE IF tag \in {5, 10} THEN
            IF Len(value) >= 4 THEN
                LET year == U16BE(value, 0) IN
                IF year = 1900 /\ value[3] = 1 /\ value[4] = 1 THEN r
                ELSE IF 1900 <= year /\ year <= CurrentYear THEN issue("real DOB")
                ELSE r
            ELSE r
        ELSE IF tag = 25 THEN
            IF Len(value) >= 4 THEN
                IF U16BE(value, 0) = 2000 /\ value[3] = 1 /\ value[4] = 1 THEN r
                ELSE warning("non-standard date")
            ELSE r
        ELSE IF tag = 26 THEN
            IF Len(value) >= 3 THEN
                IF value[1] = 0 /\ value[2] = 0 /\ value[3] = 0 THEN r
                ELSE warning("non-standard time")
            ELSE r
        ELSE IF tag \in {21, 22} THEN
            IF AllZero(value) THEN r
            ELSE IF Len(text) > 0 THEN issue("contains text")
            ELSE r
        ELSE \* tags 30 and 31
            IF AllZero(value) THEN r
            ELSE IF Len(text) > 0 THEN warning("contains data (may be intentional)")
            ELSE r

\* the inner while loop of check_section_1_tags; raised is TRUE when a read
\* at tag_pointer leaves the buffer (IndexError, struct.error)
RECURSIVE VerifyTagLoop(_, _, _, _, _)
VerifyTagLoop(d, tag_pointer, end, tags_checked, r) ==
    IF ~(tag_pointer < end - 3) THEN [r EXCEPT !.checked = tags_checked]
    ELSE IF tag_pointer >= Len(d) THEN [r EXCEPT !.raised = TRUE]
    ELSE IF d[tag_pointer + 1] = 255 THEN [r EXCEPT !.checked = tags_checked]
    ELSE IF tag_pointer + 3 > Len(d) THEN [r EXCEPT !.raised = TRUE]
    ELSE LET tag        == d[tag_pointer + 1]
             tag_length == U16LE(d, tag_pointer + 1)
             value      == Slice(d, tag_pointer + 3, tag_pointer + 3 + tag_length)
         IN  VerifyTagLoop(d, tag_pointer + 3 + tag_length, end, tags_checked + 1,
                           verify_tag(tag, value, r))

\* the outer while loop of check_section_1_tags: the section id is read at
\* pointer + 2, the size at pointer + 4, the tags start at pointer + 16
RECURSIVE VerifySectionLoop(_, _, _)
VerifySectionLoop(d, pointer, r) ==
    IF ~(pointer < Len(d) - 16) THEN r
    ELSE LET section_id   == U16LE(d, pointer + 2)
             section_size == U32LE(d, pointer + 4)
         IN  IF section_id = 1 /\ section_size < Len(d)
             THEN LET t == VerifyTagLoop(d, pointer + 16, pointer + section_size, 0,
                                         [r EXCEPT !.found = TRUE])
                  IN  IF t.raised THEN t
                      ELSE [t EXCEPT !.passed =
                                Append(@, Finding("Section 1 tags verified", t.checked))]
             ELSE IF section_size > 0
             THEN VerifySectionLoop(d, pointer + section_size, r)
             ELSE r

\* the outer loop of check_section_1_tags without the tag walk: the offset of
\* the section header at which it finds Section 1, or -1
RECURSIVE Section1Pointer(_, _)
Section1Pointer(d, pointer) ==
    IF ~(pointer < Len(d) - 16) THEN -1
    ELSE LET section_id   == U16LE(d, pointer + 2)
             section_size == U32LE(d, pointer + 4)
         IN  IF section_id = 1 /\ section_size < Len(d) THEN pointer
             ELSE IF section_size > 0 THEN Section1Pointer(d, pointer + section_size)
             ELSE -1

check_section_1_tags(d, r) ==
    LET t == VerifySectionLoop(d, 6, [r EXCEPT !.found = FALSE])
    IN  IF t.raised \/ t.found THEN t
        ELSE [t EXCEPT !.issues = Append(@, Finding("Section 1 not found in file", 1))]

----------------------------------------------------------------------------
(* AnonymizationVerifier: the file-wide pattern searches *)

\* the byte at offset i, or -1 beyond the end of the buffer
At(d, i) == IF i >= 0 /\ i < Len(d) THEN d[i + 1] ELSE -1

SetMin(S) == CHOOSE x \in S : \A y \in S : x <= y

\* regex classes over bytes: \s, [a-zA-Z0-9._%+-], [a-zA-Z0-9.-]
IsSpace(b)  == b \in {9, 10, 11, 12, 13, 32}
IsLocal(b)  == IsAlpha(b) \/ IsDigit(b) \/ b \in {46, 95, 37, 43, 45}
IsDomain(b) == IsAlpha(b) \/ IsDigit(b) \/ b \in {46, 45}

\* re.IGNORECASE on ASCII letters
Lower(b) == IF b >= 65 /\ b <= 90 THEN b + 32 ELSE b

\* the byte classes the patterns repeat
InClass(b, class) ==
    CASE class = "space"  -> IsSpace(b)
      [] class = "alpha"  -> IsAlpha(b)
      [] class = "digit"  -> IsDigit(b)
      [] class = "local"  -> IsLocal(b)
      [] class = "domain" -> IsDomain(b)

\* the length of the longest run of bytes of a class that starts at offset i
RunLen(d, i, class) ==
    IF ~InClass(At(d, i), class) THEN 0
    ELSE LET stops == { j \in i..(Len(d) - 1) : ~InClass(d[j + 1], class) }
         IN  (IF stops = {} THEN Len(d) ELSE SetMin(stops)) - i

\* Each matcher gives the end offset of the match of its pattern that starts
\* at offset i, or -1 when the pattern does not match there.

\* a literal token under re.IGNORECASE; token is given in lower case
MatchToken(d, i, token) ==
    IF i + Len(token) <= Len(d)
       /\ \A k \in 1..Len(token) : Lower(d[i + k]) = token[k]
    THEN i + Len(token) ELSE -1

\* a fixed shape: shape[k] is a literal byte, or -1 for \d
MatchShape(d, i, shape) ==
    IF i + Len(shape) <= Len(d)
       /\ \A k \in 1..Len(shape) :
              IF shape[k] = -1 THEN IsDigit(d[i + k]) ELSE d[i + k] = shape[k]
    THEN i + Len(shape) ELSE -1

\* Dr\.?\s+[A-Z][a-z]+ under re.IGNORECASE
MatchDr(d, i) ==
    IF Lower(At(d, i)) = 100 /\ Lower(At(d, i + 1)) = 114
    THEN LET j == IF At(d, i + 2) = 46 THEN i + 3 ELSE i + 2
             w == RunLen(d, j, "space")
             a == RunLen(d, j + w, "alpha")
         IN  IF w >= 1 /\ a >= 2 THEN j + w + a ELSE -1
    ELSE -1

\* [A-Z][a-z]+,\s*[A-Z][a-z]+ under re.IGNORECASE
MatchLastFirst(d, i) ==
    LET a == RunLen(d, i, "alpha")
    IN  IF a >= 2 /\ At(d, i + a) = 44
        THEN LET j == i + a + 1
                 w == RunLen(d, j, "space")
                 b == RunLen(d, j + w, "alpha")
             IN  IF b >= 2 THEN j + w + b ELSE -1
        ELSE -1

\* \d{1,2}/\d{1,2}/\d{2,4}
MatchSlashDate(d, i) ==
    LET a == RunLen(d, i, "digit")
        b == RunLen(d, i + a + 1, "digit")
        c == RunLen(d, i + a + b + 2, "digit")
    IN  IF a \in {1, 2} /\ At(d, i + a) = 47 /\ b \in {1, 2}
           /\ At(d, i + a + 1 + b) = 47 /\ c >= 2
        THEN i + a + b + 2 + Min(c, 4) ELSE -1

\* \(\d{3}\)\s*\d{3}-\d{4}
MatchParenPhone(d, i) ==
    LET j == MatchShape(d, i, <<40, -1, -1, -1, 41>>)
    IN  IF j = -1 THEN -1
        ELSE MatchShape(d, j + RunLen(d, j, "space"), <<-1, -1, -1, 45, -1, -1, -1, -1>>)

\* [a-zA-Z0-9._%+-]+@[a-zA-Z0-9.-]+\.[a-zA-Z]{2,}: the domain part is greedy,
\* so the dot that is matched is the last one followed by two letters
MatchEmail(d, i) ==
    LET a == RunLen(d, i, "local")
    IN  IF a >= 1 /\ At(d, i + a) = 64
        THEN LET j    == i + a + 1
                 r    == RunLen(d, j, "domain")
                 dots == { k \in (j + 1)..(j + r - 1) :
                               At(d, k) = 46 /\ RunLen(d, k + 1, "alpha") >= 2 }
             IN  IF dots = {} THEN -1
                 ELSE LET k == CHOOSE x \in dots : \A y \in dots : y <= x
                      IN  k + 1 + RunLen(d, k + 1, "alpha")
        ELSE -1

\* \d{8,}
MatchLongNumber(d, i) ==
    LET a == RunLen(d, i, "digit") IN IF a >= 8 THEN i + a ELSE -1

\* re.finditer: the start offsets of the non-overlapping matches, left to
\* right, ends[i] being the end of the match that starts at i, or -1
RECURSIVE IterFrom(_, _, _)
IterFrom(ends, n, from) ==
    LET starts == { i \in from..(n - 1) : ends[i] # -1 }
    IN  IF starts = {} THEN << >>
        ELSE LET i == SetMin(starts)
             IN  <<i>> \o IterFrom(ends, n, Max(ends[i], i + 1))

\* the offsets a pattern is tried at
Offsets(d) == 0..(Len(d) - 1)

FindIter(d, ends) == IterFrom(ends, Len(d), 0)

\* the literal entries of name_patterns, in lower case:
\* John Jane Smith Johnson Williams Brown Jones Garcia Miller Davis
\* Rodriguez Martinez Hernandez Lopez
name_tokens ==
    << <<106, 111, 104, 110>>, <<106, 97, 110, 101>>, <<115, 109, 105, 116, 104>>,
       <<106, 111, 104, 110, 115, 111, 110>>,
       <<119, 105, 108, 108, 105, 97, 109, 115>>, <<98, 114, 111, 119, 110>>,
       <<106, 111, 110, 101, 115>>, <<103, 97, 114, 99, 105, 97>>,
       <<109, 105, 108, 108, 101, 114>>, <<100, 97, 118, 105, 115>>,
       <<114, 111, 100, 114, 105, 103, 117, 101, 122>>,
       <<109, 97, 114, 116, 105, 110, 101, 122>>,
       <<104, 101, 114, 110, 97, 110, 100, 101, 122>>, <<108, 111, 112, 101, 122>> >>

RECURSIVE TokenMatches(_, _)
TokenMatches(d, k) ==
    IF k > Len(name_tokens) THEN << >>
    ELSE FindIter(d, [i \in Offsets(d) |-> MatchToken(d, i, name_tokens[k])])
             \o TokenMatches(d, k + 1)

\* found[:limit] reported with the given message kind
Report(found, limit, what) ==
    [k \in 1..Min(Len(found), limit) |-> Finding(what, found[k])]

\* a pattern search that reports issues
SearchIssues(r, found, limit, what, passed) ==
    IF Len(found) > 0
    THEN [r EXCEPT !.issues = @ \o Report(found, limit, what)]
    ELSE [r EXCEPT !.passed = Append(@, Finding(passed, 0))]

\* a pattern search that reports warnings
SearchWarnings(r, found, limit, what, passed) ==
    IF Len(found) > 0
    THEN [r EXCEPT !.warnings = @ \o Report(found, limit, what)]
    ELSE [r EXCEPT !.passed = Append(@, Finding(passed, 0))]

\* the matches of a fixed shape
FindShape(d, shape) == FindIter(d, [i \in Offsets(d) |-> MatchShape(d, i, shape)])

check_for_real_names(d, r) ==
    SearchIssues(r, TokenMatches(d, 1)
                        \o FindIter(d, [i \in Offsets(d) |-> MatchDr(d, i)])
                        \o FindIter(d, [i \in Offsets(d) |-> MatchLastFirst(d, i)]),
                 5, "Possible name", "No name patterns detected")

check_for_real_dates(d, r) ==
    SearchWarnings(r, FindIter(d, [i \in Offsets(d) |-> MatchSlashDate(d, i)])
                          \o FindShape(d, <<-1, -1, -1, -1, 45, -1, -1, 45, -1, -1>>)
                          \o FindShape(d, <<-1, -1, 45, -1, -1, 45, -1, -1, -1, -1>>),
                   5, "Date pattern", "No text date patterns detected")

check_for_ssn_patterns(d, r) ==
    SearchIssues(r, FindShape(d, <<-1, -1, -1, 45, -1, -1, 45, -1, -1, -1, -1>>),
                 3, "SSN pattern", "No SSN patterns detected")

check_for_phone_numbers(d, r) ==
    SearchWarnings(r, FindIter(d, [i \in Offsets(d) |-> MatchParenPhone(d, i)])
                          \o FindShape(d, <<-1, -1, -1, 45, -1, -1, -1, 45, -1, -1, -1, -1>>)
                          \o FindShape(d, <<-1, -1, -1, -1, -1, -1, -1, -1, -1, -1>>),
                   3, "Phone pattern", "No phone patterns detected")

check_for_email_addresses(d, r) ==
    SearchIssues(r, FindIter(d, [i \in Offsets(d) |-> MatchEmail(d, i)]),
                 3, "Email", "No email patterns detected")

\* a run of 8 or more digits is suspicious unless it is all zeros
check_for_numeric_ids(d, r) ==
    LET runs == FindIter(d, [i \in Offsets(d) |-> MatchLongNumber(d, i)])
        Suspicious(i) ==
            \E k \in i..(MatchLongNumber(d, i) - 1) : d[k + 1] # 48
    IN  SearchWarnings(r, SelectSeq(runs, Suspicious), 5, "Numeric ID",
                       "No suspicious numeric IDs detected")

----------------------------------------------------------------------------
(* AnonymizationVerifier: signal comparison, file structure, verify_all *)

\* _find_section: the bytes of the first section with the given id, the id
\* being read at pointer + 2 and the size at pointer + 4; << >> stands for
\* None, which the callers do not tell from an empty result
RECURSIVE FindSectionFrom(_, _, _)
FindSectionFrom(d, section_id, pointer) ==
    IF ~(pointer < Len(d) - 16) THEN << >>
    ELSE LET sid  == U16LE(d, pointer + 2)
             size == U32LE(d, pointer + 4)
         IN  IF sid = section_id /\ size < Len(d) THEN Slice(d, pointer, pointer + size)
             ELSE IF size > 0 THEN FindSectionFrom(d, section_id, pointer + size)
             ELSE << >>

find_section(d, section_id) == FindSectionFrom(d, section_id, 6)

\* _compare_section: match is TRUE when both files hold the section with equal bytes
compare_section(d, orig, section_id, r) ==
    LET orig_section == find_section(orig, section_id)
        anon_section == find_section(d, section_id)
    IN  IF orig_section # << >> /\ anon_section # << >>
        THEN IF orig_section = anon_section
             THEN [r EXCEPT !.match = TRUE]
             ELSE [r EXCEPT !.match = FALSE,
                            !.issues = Append(@, Finding("Section modified", section_id))]
        ELSE [r EXCEPT !.match = FALSE]

\* check_signal_data_unchanged; orig is << >> when no original was read
check_signal_data_unchanged(d, orig, r) ==
    IF orig = << >> THEN r
    ELSE LET r3 == compare_section(d, orig, 3, r)
             r6 == compare_section(d, orig, 6, r3)
         IN  IF r3.match /\ r6.match
             THEN [r6 EXCEPT !.passed = Append(@, Finding("Signal data preserved", 0))]
             ELSE r6

\* the section count of check_file_structure
RECURSIVE CountSections(_, _, _)
CountSections(d, pointer, section_count) ==
    IF ~(pointer < Len(d) - 16) THEN section_count
    ELSE LET section_size == U32LE(d, pointer + 4)
         IN  IF section_size = 0 \/ section_size > Len(d) - pointer THEN section_count
             ELSE CountSections(d, pointer + section_size, section_count + 1)

\* check_file_structure; reading the CRC field raises on a buffer shorter than 2 bytes
check_file_structure(d, orig, r) ==
    LET r1 == IF orig # << >> /\ Len(d) = Len(orig)
              THEN [r EXCEPT !.passed = Append(@, Finding("File size preserved", 0))]
              ELSE IF orig # << >>
              THEN [r EXCEPT !.warnings =
                        Append(@, Finding("File size changed", Len(d) - Len(orig)))]
              ELSE r
    IN  IF Len(d) < 2 THEN [r1 EXCEPT !.raised = TRUE]
        ELSE [r1 EXCEPT !.passed =
                  Append(@, Finding("sections validated", CountSections(d, 6, 0)))]

\* the state of a verifier after __init__
NewReport ==
    [issues |-> << >>, warnings |-> << >>, passed |-> << >>,
     raised |-> FALSE, found |-> FALSE, checked |-> 0, match |-> FALSE,
     result |-> "none"]

\* a verdict that also counts the warnings
verdict_without_findings(r) == Len(r.issues) = 0 /\ Len(r.warnings) = 0

\* return len(self.issues) == 0
verdict(r) == Len(r.issues) = 0

\* verify_all: the nine checks in order, then the verdict; an exception ends
\* the run and nothing is returned
verify_all(d, orig) ==
    LET r1 == check_section_1_tags(d, NewReport)
        r9 == IF r1.raised THEN r1
              ELSE check_file_structure(d, orig,
                   check_signal_data_unchanged(d, orig,
                   check_for_numeric_ids(d,
                   check_for_email_addresses(d,
                   check_for_phone_numbers(d,
                   check_for_ssn_patterns(d,
                   check_for_real_dates(d,
                   check_for_real_names(d, r1))))))))
    IN  IF r9.raised THEN r9
        ELSE [r9 EXCEPT !.result = IF verdict(r9) THEN "pass" ELSE "fail"]

----------------------------------------------------------------------------
(* SCPReader *)

\* the value of a dictionary key that was never set
None == <<-1>>

lead_names == <<"I", "II", "III", "aVR", "aVL", "aVF", "V1", "V2", "V3", "V4", "V5", "V6">>

\* f'Lead {i+1}' for i in range(12)
lead_labels ==
    << "Lead 1", "Lead 2", "Lead 3", "Lead 4", "Lead 5", "Lead 6",
       "Lead 7", "Lead 8", "Lead 9", "Lead 10", "Lead 11", "Lead 12" >>

\* struct.unpack('<h') and ('b'): two's complement
Signed16(n) == IF n >= 32768 THEN n - 65536 ELSE n
Signed8(n)  == IF n >= 128 THEN n - 256 ELSE n

\* str.strip() of a latin-1 decoded value: the characters with isspace()
IsStrSpace(b) == b \in {9, 10, 11, 12, 13, 28, 29, 30, 31, 32, 133, 160}

Strip(v) ==
    LET keep == { i \in 1..Len(v) : ~IsStrSpace(v[i]) }
    IN  IF keep = {} THEN << >>
        ELSE SubSeq(v, SetMin(keep), CHOOSE i \in keep : \A j \in keep : j <= i)

\* ecg_data: None, a decoded matrix (rows of samples), or the generated
\* placeholder, of which only the shape and the noise are kept
NoEcg == [kind |-> "none", nrows |-> 0, ncols |-> 0, rows |-> << >>, noise |-> 0]

\* SCPReader.__init__; data is filled in by read_file
NewReader(file) ==
    [ data |-> file, pointer |-> 6, state |-> "header",
      sections |-> << >>, leads |-> << >>, sampling_rate |-> 500,
      ecg_data |-> NoEcg,
      patient_info |-> [id |-> None, last_name |-> None, first_name |-> None,
                        birth_date |-> None],
      device_info |-> [id |-> None, type |-> None, acquisition_date |-> None,
                       acquisition_time |-> None] ]

\* _generate_sample_data: 12 leads of 10 * sampling_rate samples; the values
\* hold random noise, which `noise` stands for
generate_sample_data(R, noise) ==
    [R EXCEPT !.ecg_data = [kind |-> "synthetic", nrows |-> 12,
                            ncols |-> 10 * R.sampling_rate, rows |-> << >>,
                            noise |-> noise],
              !.leads = IF R.leads = << >> THEN lead_names ELSE R.leads]

\* _parse_patient_data: the tag loop; an exception in one field ends the loop
RECURSIVE PatientLoop(_, _, _)
PatientLoop(R, d, pointer) ==
    IF ~(pointer < Len(d) - 5) THEN R
    ELSE LET tag    == d[pointer + 1]
             length == U16LE(d, pointer + 1)
             value  == Slice(d, pointer + 3, pointer + 3 + length)
             next(Q) == PatientLoop(Q, d, pointer + 3 + length)
         IN  IF tag = 2 THEN next([R EXCEPT !.patient_info.id = Strip(value)])
             ELSE IF tag = 8 THEN next([R EXCEPT !.patient_info.last_name = Strip(value)])
             ELSE IF tag = 9 THEN next([R EXCEPT !.patient_info.first_name = Strip(value)])
             ELSE IF tag = 10 THEN
                 IF Len(value) < 4 THEN R
                 ELSE IF U16BE(value, 0) > 0
                 THEN next([R EXCEPT !.patient_info.birth_date =
                                         <<U16BE(value, 0), value[3], value[4]>>])
                 ELSE next(R)
             ELSE IF tag = 14 THEN
                 IF Len(value) < 3 THEN R
                 ELSE next([R EXCEPT !.device_info.id = <<U16LE(value, 0)>>,
                                     !.device_info.type = <<value[3]>>])
             ELSE IF tag = 25 THEN
                 IF Len(value) < 4 THEN R
                 ELSE IF U16BE(value, 0) > 0
                 THEN next([R EXCEPT !.device_info.acquisition_date =
                                         <<U16BE(value, 0), value[3], value[4]>>])
                 ELSE next(R)
             ELSE IF tag = 26 THEN
                 IF Len(value) < 3 THEN R
                 ELSE next([R EXCEPT !.device_info.acquisition_time =
                                         <<value[1], value[2], value[3]>>])
             ELSE next(R)

parse_patient_data(R, d) == PatientLoop(R, d, 0)

\* _parse_lead_info
parse_lead_info(R, d) ==
    IF Len(d) = 0 THEN [R EXCEPT !.leads = lead_names]
    ELSE LET num_leads       == d[1]
             lead_spec_start == 1 + (num_leads * 2)
             n     == Min(num_leads, 12)
             added == SelectSeq([i \in 1..n |-> i],
                                LAMBDA i : lead_spec_start + (i - 1) < Len(d))
             leads == R.leads \o [k \in 1..Len(added) |-> lead_names[added[k]]]
         IN  [R EXCEPT !.leads = IF leads = << >> THEN SubSeq(lead_labels, 1, n)
                                 ELSE leads]

\* the delta loop of one lead: `remaining` more bytes are read from `pointer`,
\* each added to the last sample when the lead has a reference sample
RECURSIVE DeltaLoop(_, _, _, _)
DeltaLoop(d, pointer, remaining, lead_samples) ==
    IF remaining <= 0 THEN lead_samples
    ELSE DeltaLoop(d, pointer + 1, remaining - 1,
                   IF lead_samples = << >> THEN lead_samples
                   ELSE Append(lead_samples,
                               lead_samples[Len(lead_samples)] + Signed8(d[pointer + 1])))

\* the body of the lead loop of _parse_rhythm_data for one lead
DecodeLead(d, pointer, compression) ==
    LET counted     == pointer + 4 <= Len(d)
        num_samples == IF counted THEN U32LE(d, pointer) ELSE 5000
        p1          == IF counted THEN pointer + 4 ELSE pointer
    IN  IF compression = 0
        THEN LET k == Max(0, Min(num_samples, (Len(d) - p1) \div 2))
             IN  [samples |-> [j \in 1..k |-> Signed16(U16LE(d, p1 + (2 * (j - 1))))],
                  pointer |-> p1 + (2 * k)]
        ELSE LET has_ref == p1 + 2 <= Len(d)
                 p2      == IF has_ref THEN p1 + 2 ELSE p1
                 m       == Max(0, Min(num_samples - 1, Len(d) - p2))
             IN  [samples |-> DeltaLoop(d, p2, m,
                                        IF has_ref THEN <<Signed16(U16LE(d, p1))>>
                                        ELSE << >>),
                  pointer |-> p2 + m]

\* the lead loop: lead_data collects the leads that decoded to some samples
RECURSIVE LeadLoop(_, _, _, _, _)
LeadLoop(d, pointer, compression, todo, lead_data) ==
    IF todo = 0 THEN lead_data
    ELSE LET l == DecodeLead(d, pointer, compression)
         IN  IF l.samples # << >>
             THEN LeadLoop(d, l.pointer, compression, todo - 1,
                           Append(lead_data, l.samples))
             ELSE LeadLoop(d, l.pointer, compression, todo - 1, lead_data)

\* np.zeros((num_leads, max_length)) with row i set to lead_data[i]
Matrix(num_leads, lead_data) ==
    LET max_length ==
            CHOOSE n \in { Len(lead_data[i]) : i \in 1..Len(lead_data) } :
                \A i \in 1..Len(lead_data) : Len(lead_data[i]) <= n
    IN  [kind |-> "decoded", nrows |-> num_leads, ncols |-> max_length,
         rows |-> [i \in 1..num_leads |->
                      IF i <= Len(lead_data)
                      THEN lead_data[i] \o Zeros(max_length - Len(lead_data[i]))
                      ELSE Zeros(max_length)],
         noise |-> 0]

\* _parse_rhythm_data: a header read that leaves the buffer raises, and the
\* except clause generates the placeholder
parse_rhythm_data(R, d, noise) ==
    IF Len(d) < 4 THEN generate_sample_data(R, noise)
    ELSE LET sample_interval == U16LE(d, 2)
             R1 == IF sample_interval > 0
                   THEN [R EXCEPT !.sampling_rate = 1000000 \div sample_interval]
                   ELSE R
         IN  IF Len(d) < 8 THEN generate_sample_data(R1, noise)
             ELSE LET compression == d[6]
                      declared    == U16LE(d, 6)
                      num_leads   == IF declared = 0 \/ declared > 12 THEN 12 ELSE declared
                      lead_data   == LeadLoop(d, 10, compression, num_leads, << >>)
                  IN  IF lead_data # << >>
                      THEN [R1 EXCEPT !.ecg_data = Matrix(num_leads, lead_data)]
                      ELSE R1

\* _parse_header: both unpacks need the 6 header bytes
parse_header(R) ==
    IF Len(R.data) < 6 THEN [R EXCEPT !.state = "raised"]
    ELSE [R EXCEPT !.state = "sections"]

\* one iteration of the while loop of _parse_sections
parse_section(R, noise) ==
    LET d            == R.data
        pointer      == R.pointer
        section_id   == U16LE(d, pointer)
        section_size == U32LE(d, pointer + 2)
        payload      == Slice(d, pointer + 8, pointer + section_size)
        entry        == [size |-> section_size, version |-> d[pointer + 7],
                         protocol |-> d[pointer + 8], data_start |-> pointer + 8]
        R1 == [R EXCEPT !.sections = (section_id :> entry) @@ R.sections]
        R2 == IF section_id = 1 THEN parse_patient_data(R1, payload)
              ELSE IF section_id = 3 THEN parse_lead_info(R1, payload)
              ELSE IF section_id = 6 THEN parse_rhythm_data(R1, payload, noise)
              ELSE R1
    IN  IF section_id = 0 THEN [R EXCEPT !.state = "extract"]
        ELSE [R2 EXCEPT !.pointer = pointer + section_size]

\* _extract_ecg_data
extract_ecg_data(R, noise) ==
    [(IF R.ecg_data.kind = "none" THEN generate_sample_data(R, noise) ELSE R)
        EXCEPT !.state = "done"]

----------------------------------------------------------------------------
(* Input files *)

\* one tag of a Section 1 payload: id, declared length (u16 LE), value bytes
TagBytes(id, declared, value) == <<id>> \o PackU16LE(declared) \o value

\* one section in the layout the reader and the anonymizer read:
\* id (u16 LE), size including the 8-byte header (u32 LE), version, protocol
SectionBytes(id, payload) ==
    PackU16LE(id) \o PackU32LE(8 + Len(payload)) \o <<20, 20>> \o payload

\* a file: crc field (left zero), file size (u32 LE), the sections in order
FileBytes(body) == <<0, 0>> \o PackU32LE(6 + Len(body)) \o body

RECURSIVE Concat(_)
Concat(seqs) == IF seqs = << >> THEN << >> ELSE Head(seqs) \o Concat(Tail(seqs))

\* the tags the generated Section 1 payloads are made of
TagPool ==
    << TagBytes(2, 9, Digits(<<1, 2, 3, 4, 5, 6, 7, 8, 9>>)),     \* patient id "123456789"
       TagBytes(2, 4, Digits(<<4, 7, 1, 1>>)),                    \* patient id "4711"
       TagBytes(1, 4, <<74, 111, 104, 110>>),                     \* first name "John"
       TagBytes(8, 5, <<83, 109, 105, 116, 104>>),                \* last name "Smith"
       TagBytes(6, 10, <<87, 97, 115, 104, 105, 110, 103, 116, 111, 110>>), \* "Washington"
       TagBytes(5, 4, PackU16BE(1970) \o <<5, 20>>),              \* date of birth
       TagBytes(10, 4, PackU16BE(1970) \o <<5, 20>>),             \* date of birth
       TagBytes(21, 3, <<76, 101, 101>>),                         \* physician "Lee"
       TagBytes(25, 4, PackU16BE(2017) \o <<5, 4>>),              \* acquisition date
       TagBytes(26, 3, <<16, 35, 7>>),                            \* acquisition time
       TagBytes(30, 4, Digits(<<4, 7, 1, 1>>)),                   \* free text "4711"
       TagBytes(7, 40, <<65, 108>>),          \* declared length runs into the next sections
       TagBytes(2, 90, Digits(<<1, 2>>)) >>   \* declared length runs past the end of the file

\* the tags of a payload: a set of at most MaxTags pool entries, in pool order
RECURSIVE PickTags(_, _)
PickTags(chosen, i) ==
    IF i > Len(TagPool) THEN << >>
    ELSE (IF i \in chosen THEN <<TagPool[i]>> ELSE << >>) \o PickTags(chosen, i + 1)

TagChoices == { c \in SUBSET (1..Len(TagPool)) : Cardinality(c) <= MaxTags }

\* a Section 1 payload: the chosen tags and the terminator tag 255
Section1Payload(tags) == Concat(tags) \o <<255, 0, 0>>

\* Section 3: two leads
Section3Payload == <<2, 0, 0, 0, 0, 1, 2>>

\* Section 6: amplitude, sample interval 2000 us, encoding, compression flag,
\* lead count, bytes per sample; then per lead a u32 sample count and the samples
Section6Pool ==
    { \* raw: one lead, two samples whose bytes read "test"
      <<1, 0, 208, 7, 0, 0, 1, 0, 2, 0>> \o <<2, 0, 0, 0>> \o <<116, 101, 115, 116>>,
      \* delta: one lead, reference 100, deltas 5 and -10
      <<1, 0, 208, 7, 0, 1, 1, 0, 2, 0>> \o <<3, 0, 0, 0>> \o <<100, 0, 5, 246>> }

GeneratedFiles ==
    { FileBytes(SectionBytes(1, Section1Payload(PickTags(c, 1)))
                \o SectionBytes(3, Section3Payload)
                \o SectionBytes(6, s6)) : c \in TagChoices, s6 \in Section6Pool }

\* tag 2 = "123456789", tag 8 = "Smith", tag 9 = "John", tag 10 = {1970, 5, 20}
ScenarioFile ==
    FileBytes(SectionBytes(1, Section1Payload(
                  << TagPool[1], TagPool[4], TagBytes(9, 4, <<74, 111, 104, 110>>),
                     TagPool[7] >>))
              \o SectionBytes(3, Section3Payload))

\* one section in the layout the verifier reads: section crc, id (u16 LE),
\* size including the 16-byte header (u32 LE), version, protocol, 6 reserved
RealSectionBytes(id, payload) ==
    <<171, 205>> \o PackU16LE(id) \o PackU32LE(16 + Len(payload)) \o <<20, 20>>
        \o Zeros(6) \o payload

RealFile(tags) ==
    FileBytes(RealSectionBytes(1, Section1Payload(tags))
              \o RealSectionBytes(3, Section3Payload))

\* files in the verifier's layout: one pool tag each, and the scenario's tags
RealFiles ==
    { RealFile(<<TagPool[i]>>) : i \in 1..11 }
        \cup { RealFile(<< TagPool[1], TagPool[4], TagBytes(9, 4, <<74, 111, 104, 110>>),
                           TagPool[7] >>) }

\* files in the verifier's layout whose free text holds an e-mail address
\* ("a@b.io") and whose medical history holds an SSN shape ("123-45-6789")
PatternFiles ==
    { RealFile(<<TagBytes(30, 6, <<97, 64, 98, 46, 105, 111>>)>>),
      RealFile(<<TagBytes(31, 11, <<49, 50, 51, 45, 52, 53, 45, 54, 55, 56, 57>>)>>) }

\* files in the verifier's layout with Sections 1, 3 and 6, Section 1 holding
\* the acquisition date and time; and one whose tag 7 declares a length
\* that runs into Section 3
SignalFiles ==
    { FileBytes(RealSectionBytes(1, Section1Payload(<<TagPool[9], TagPool[10]>>))
                \o RealSectionBytes(3, Section3Payload)
                \o RealSectionBytes(6, s6)) : s6 \in Section6Pool }
        \cup { RealFile(<<TagPool[12]>>) }

\* buffers shorter than the 6-byte file header
ShortFiles == { << >>, <<1, 2, 3>>, <<0, 0, 5, 0, 0>> }

\* files with a section header that declares size 0 with a non-zero id:
\* alone, and after a Section 1
MalformedFiles ==
    { FileBytes(<<5, 0>> \o PackU32LE(0) \o <<20, 20>> \o Zeros(8)),
      FileBytes(SectionBytes(1, Section1Payload(<<TagPool[2]>>))
                \o <<7, 0>> \o PackU32LE(0) \o <<20, 20>> \o Zeros(8)) }

\* Section 6 payloads in delta mode (compression flag 1): the lead count and,
\* per lead, the u32 sample count, the reference sample and the deltas
DeltaSection6(num_leads, leads) ==
    <<1, 0, 208, 7, 0, 1>> \o PackU16LE(num_leads) \o <<2, 0>> \o leads

DeltaPool ==
    { DeltaSection6(1, <<0, 0, 0, 0, 7, 0, 9>>),          \* count 0, then 07 00 09
      DeltaSection6(1, <<1, 0, 0, 0, 7, 0, 9>>),          \* count 1, reference 7
      DeltaSection6(1, <<4, 0, 0, 0, 156, 255, 3>>),      \* count 4, reference -100, one delta
      DeltaSection6(2, <<2, 0, 0, 0, 10, 0, 1>>           \* two leads of two samples
                           \o <<2, 0, 0, 0, 20, 0, 255>>) }

\* files of a Section 1 without tags and a Section 6 in delta mode
DeltaFiles ==
    { FileBytes(SectionBytes(1, Section1Payload(<< >>)) \o SectionBytes(6, s6)) :
          s6 \in DeltaPool }

\* files whose Section 1 holds the terminator tag 255 and, after it, tag 2
\* with the value "4711": in the reader's layout and in the verifier's
TerminatorFiles ==
    { FileBytes(SectionBytes(1, <<255, 0, 0>> \o Section1Payload(<<TagPool[2]>>))
                \o SectionBytes(3, Section3Payload)),
      FileBytes(RealSectionBytes(1, <<255, 0, 0>> \o Section1Payload(<<TagPool[2]>>))
                \o RealSectionBytes(3, Section3Payload)) }

\* values of a name tag: "Jo", "Ann", "R2D2", "Smith" with two trailing NULs,
\* three NULs, and "REMOVEDA"
NameValues ==
    { <<74, 111>>, <<65, 110, 110>>, <<82, 50, 68, 50>>,
      <<83, 109, 105, 116, 104, 0, 0>>, <<0, 0, 0>>,
      <<82, 69, 77, 79, 86, 69, 68, 65>> }

\* files in the verifier's layout whose Section 1 holds a name tag the
\* anonymizer leaves alone (tag 0), and one with the tags 0 and 1
NameFiles ==
    { RealFile(<<TagBytes(0, Len(v), v)>>) : v \in NameValues }
        \cup { RealFile(<<TagBytes(0, 3, <<65, 110, 110>>),
                          TagBytes(1, 4, <<82, 50, 68, 50>>)>>) }

\* files in the verifier's layout: free text of two non-zero bytes that are
\* no ASCII characters (C8 C9); and tag 2 = "ANON000001", date of birth
\* {1900, 1, 1} and free text "note"
AdvisoryFiles ==
    { RealFile(<<TagBytes(30, 2, <<200, 201>>)>>),
      RealFile(<< TagBytes(2, 10, <<65, 78, 79, 78, 48, 48, 48, 48, 48, 49>>),
                  TagBytes(10, 4, PackU16BE(1900) \o <<1, 1>>),
                  TagBytes(30, 4, <<110, 111, 116, 101>>) >>) }

\* a file whose Section 1 holds a date of birth cut to 2 bytes (tag 10,
\* declared length 2) followed by the last name "Smith"
TruncatedDateFiles ==
    { FileBytes(SectionBytes(1, Section1Payload(<<TagBytes(10, 2, PackU16BE(1970)),
                                                  TagPool[4]>>))
                \o SectionBytes(3, Section3Payload)) }

\* the raw Section 6 of the pool: one lead of two samples
RawSection6 ==
    <<1, 0, 208, 7, 0, 0, 1, 0, 2, 0>> \o <<2, 0, 0, 0>> \o <<116, 101, 115, 116>>

\* files with a Section 3 that occurs twice, declares lead count 0, declares
\* 5 leads without their entries, or has no payload at all
LeadFiles ==
    { FileBytes(SectionBytes(1, Section1Payload(<< >>))
                \o SectionBytes(3, Section3Payload) \o SectionBytes(3, Section3Payload)),
      FileBytes(SectionBytes(1, Section1Payload(<< >>))
                \o SectionBytes(3, <<0>>) \o SectionBytes(6, RawSection6)),
      FileBytes(SectionBytes(1, Section1Payload(<< >>)) \o SectionBytes(3, <<5, 0, 0>>)),
      FileBytes(SectionBytes(1, Section1Payload(<< >>))
                \o SectionBytes(3, << >>) \o SectionBytes(6, RawSection6)) }

\* raw Section 6 payloads: the lead count and, per lead, the u32 sample
\* count and the samples
RawSection6Of(num_leads, leads) ==
    <<1, 0, 208, 7, 0, 0>> \o PackU16LE(num_leads) \o <<2, 0>> \o leads

\* files whose Section 6 has two leads, the first with sample count 0; lead
\* count 0 and one lead of one sample; and two leads of 3 and 1 samples
MatrixFiles ==
    { FileBytes(SectionBytes(1, Section1Payload(<< >>)) \o SectionBytes(6, s6)) :
          s6 \in { RawSection6Of(2, <<0, 0, 0, 0>> \o <<2, 0, 0, 0, 1, 0, 2, 0>>),
                   RawSection6Of(0, <<1, 0, 0, 0, 5, 0>>),
                   RawSection6Of(2, <<3, 0, 0, 0, 1, 0, 2, 0, 3, 0>>
                                        \o <<1, 0, 0, 0, 9, 0>>) } }

\* a file in the verifier's layout whose Section 1 declares a size of 27
\* bytes in a 28-byte file and holds tag 21 = "Lee" without a terminator
OversizedFiles ==
    { FileBytes(<<171, 205>> \o PackU16LE(1) \o PackU32LE(27) \o <<20, 20>> \o Zeros(6)
                \o TagBytes(21, 3, <<76, 101, 101>>)) }

\* a file with two headers of Section 1 in the reader's layout: the first, at
\* offset 6, declares the length of the file as its size and is followed by
\* tag 2 = "AB"; the second, at offset 20, holds tag 8 with a declared length
\* of 10 and the 5 bytes "Smith" before the end of the file
RepeatFiles ==
    { FileBytes(PackU16LE(1) \o PackU32LE(36) \o <<0, 0>>
                \o TagBytes(2, 2, <<65, 66>>) \o <<0>>
                \o PackU16LE(1) \o PackU32LE(16) \o <<0, 0>>
                \o TagBytes(8, 10, <<83, 109, 105, 116, 104>>)) }

\* an anonymous id that holds the digits of a sample patient id, "x1234567",
\* and a file whose free text (tag 30) is "1234567889"
PatternIds == { <<120>> \o Digits(<<1, 2, 3, 4, 5, 6, 7>>) }

PatternIdFiles ==
    { FileBytes(PackU16LE(1) \o PackU32LE(24) \o <<0, 0>>
                \o TagBytes(30, 10, Digits(<<1, 2, 3, 4, 5, 6, 7, 8, 8, 9>>))
                \o <<255, 0, 0>> \o Zeros(12)) }

Inputs ==
    GeneratedFiles \cup {ScenarioFile} \cup RealFiles \cup PatternFiles \cup SignalFiles
        \cup ShortFiles
        \cup MalformedFiles
        \cup DeltaFiles
        \cup TerminatorFiles
        \cup NameFiles
        \cup AdvisoryFiles
        \cup TruncatedDateFiles
        \cup LeadFiles
        \cup MatrixFiles
        \cup OversizedFiles
        \cup RepeatFiles

\* what np.random.randn may contribute to a generated waveform
Noises == {0, 1}

\* "ANON000001" and "X7"
AnonIds == { <<65, 78, 79, 78, 48, 48, 48, 48, 48, 49>>, <<88, 55>> }

----------------------------------------------------------------------------
(* The workflow: SCPAnonymizer.anonymize, AnonymizationVerifier.verify_all on
   its output, SCPReader.read_file on the input and on the output *)

\* the keyword arguments of a constructor call: none beside anonymous_id, or
\* anonymize_datetime and anonymize_freetext as example_anonymization_options
\* passes them
NoOptions == [passed |-> FALSE, anonymize_datetime |-> TRUE, anonymize_freetext |-> TRUE]

OptionChoices ==
    {NoOptions} \cup [passed : {TRUE}, anonymize_datetime : BOOLEAN,
                      anonymize_freetext : BOOLEAN]

\* no second anonymizer has run; no direct call was made
NoRerun == [data |-> << >>, changes_made |-> << >>]
NoCall  == [search_bytes |-> << >>, replace_bytes |-> << >>, count |-> -1]

Init ==
    /\ pc = "new"
    /\ \/ original \in Inputs /\ anonymous_id \in AnonIds
       \/ original \in PatternIdFiles /\ anonymous_id \in PatternIds
    /\ options \in OptionChoices
    /\ data = << >>
    /\ changes_made = << >>
    /\ tags_seen = << >>
    /\ output = << >>
    /\ with_original = FALSE
    /\ report = NewReport
    /\ readers = [orig |-> NewReader(<< >>), anon |-> NewReader(<< >>)]
    /\ rerun = NoRerun
    /\ call = NoCall

\* SCPAnonymizer.__init__(filepath, anonymous_id=None): the signature has no
\* other parameter, so a call that passes the two flags raises TypeError
Construct ==
    /\ pc = "new"
    /\ pc' = IF options.passed THEN "type_error" ELSE "start"
    /\ UNCHANGED <<original, anonymous_id, data, changes_made, tags_seen, output,
                   with_original, report, readers, options, rerun, call>>

\* SCPAnonymizer.read_file
ReadFile ==
    /\ pc = "start"
    /\ data' = original
    /\ pc' = "read"
    /\ UNCHANGED <<options, rerun, call>>
    /\ UNCHANGED <<original, anonymous_id, changes_made, tags_seen, output,
                   with_original, report, readers>>

\* SCPAnonymizer.anonymize_patient_data
AnonymizePatientData ==
    /\ pc = "read"
    /\ LET r == anonymize_patient_data(data, anonymous_id, changes_made)
       IN  /\ data' = r.data
           /\ changes_made' = r.changes
           /\ tags_seen' = r.seen
    /\ pc' = "anonymized"
    /\ UNCHANGED <<options, rerun, call>>
    /\ UNCHANGED <<original, anonymous_id, output, with_original, report, readers>>

\* save_anonymized with its two calls in the other order: update_crc first
save_anonymized_swapped(at) ==
    CASE at = "anonymized" -> "update_crc"
      [] at = "sized"      -> "update_file_size"
      [] at = "crc"        -> "write"
      [] OTHER             -> "none"

\* save_anonymized: the statement executed at each position, in program
\* order: update_file_size(), update_crc(), f.write(self.data)
save_anonymized(at) ==
    CASE at = "anonymized" -> "update_file_size"
      [] at = "sized"      -> "update_crc"
      [] at = "crc"        -> "write"
      [] OTHER             -> "none"

\* the position after the statement at a position of save_anonymized
AfterStatement(at) ==
    CASE at = "anonymized" -> "sized"
      [] at = "sized"      -> "crc"
      [] at = "crc"        -> "saved"

\* save_anonymized: update_file_size
UpdateFileSize ==
    /\ save_anonymized(pc) = "update_file_size"
    /\ data' = update_file_size(data)
    /\ pc' = AfterStatement(pc)
    /\ UNCHANGED <<options, rerun, call>>
    /\ UNCHANGED <<original, anonymous_id, changes_made, tags_seen, output,
                   with_original, report, readers>>

\* save_anonymized: update_crc
UpdateCrc ==
    /\ save_anonymized(pc) = "update_crc"
    /\ data' = update_crc(data)
    /\ changes_made' = Append(changes_made, Change("Updated CRC", U16LE(data', 0), 1))
    /\ pc' = AfterStatement(pc)
    /\ UNCHANGED <<options, rerun, call>>
    /\ UNCHANGED <<original, anonymous_id, tags_seen, output, with_original, report,
                   readers>>

\* save_anonymized: the buffer is written to the output file
WriteFile ==
    /\ save_anonymized(pc) = "write"
    /\ output' = data
    /\ pc' = AfterStatement(pc)
    /\ UNCHANGED <<options, rerun, call>>
    /\ UNCHANGED <<original, anonymous_id, data, changes_made, tags_seen,
                   with_original, report, readers>>

\* a second SCPAnonymizer with the same anonymous_id runs anonymize() on the
\* output file: read_file, anonymize_patient_data, save_anonymized
Reanonymize ==
    /\ pc = "saved"
    /\ LET r  == anonymize_patient_data(output, anonymous_id, << >>)
           d2 == update_crc(update_file_size(r.data))
       IN  rerun' = [data |-> d2,
                     changes_made |->
                         Append(r.changes, Change("Updated CRC", U16LE(d2, 0), 1))]
    /\ pc' = "rerun"
    /\ UNCHANGED <<original, anonymous_id, data, changes_made, tags_seen, output,
                   with_original, report, readers, options, call>>

\* AnonymizationVerifier(output, original or nothing).verify_all
VerifyAll ==
    /\ pc = "saved"
    /\ \E supplied \in BOOLEAN :
          /\ with_original' = supplied
          /\ report' = verify_all(output, IF supplied THEN original ELSE << >>)
    /\ pc' = "verified"
    /\ UNCHANGED <<options, rerun, call>>
    /\ UNCHANGED <<original, anonymous_id, data, changes_made, tags_seen, output,
                   readers>>

\* the two readers run one after the other: first on the input, then on the output
ReaderFile(w) == IF w = "orig" THEN original ELSE output
Before(w)     == IF w = "orig" THEN "verified" ELSE "parsed_orig"
During(w)     == IF w = "orig" THEN "parsing_orig" ELSE "parsing_anon"
After(w)      == IF w = "orig" THEN "parsed_orig" ELSE "done"

\* SCPReader.read_file up to _parse_header; a raise ends read_file
ReaderReadFile(w) ==
    /\ pc = Before(w)
    /\ LET R == parse_header(NewReader(ReaderFile(w)))
       IN  /\ readers' = [readers EXCEPT ![w] = R]
           /\ pc' = IF R.state = "raised" THEN After(w) ELSE During(w)
    /\ UNCHANGED <<options, rerun, call>>
    /\ UNCHANGED <<original, anonymous_id, data, changes_made, tags_seen, output,
                   with_original, report>>

\* one iteration of the loop of _parse_sections
ReaderParseSection(w) ==
    /\ pc = During(w)
    /\ readers[w].state = "sections"
    /\ readers[w].pointer < Len(readers[w].data) - 10
    /\ \E noise \in Noises :
          readers' = [readers EXCEPT ![w] = parse_section(readers[w], noise)]
    /\ UNCHANGED <<options, rerun, call>>
    /\ UNCHANGED <<pc, original, anonymous_id, data, changes_made, tags_seen, output,
                   with_original, report>>

\* the loop of _parse_sections has ended: _extract_ecg_data, and read_file returns
ReaderExtract(w) ==
    /\ pc = During(w)
    /\ \/ readers[w].state = "extract"
       \/ /\ readers[w].state = "sections"
          /\ ~(readers[w].pointer < Len(readers[w].data) - 10)
    /\ \E noise \in Noises :
          readers' = [readers EXCEPT ![w] = extract_ecg_data(readers[w], noise)]
    /\ pc' = After(w)
    /\ UNCHANGED <<options, rerun, call>>
    /\ UNCHANGED <<original, anonymous_id, data, changes_made, tags_seen, output,
                   with_original, report>>

vars == <<pc, original, anonymous_id, data, changes_made, tags_seen, output,
          with_original, report, readers, options, rerun, call>>

Next ==
    \/ Construct
    \/ ReadFile
    \/ AnonymizePatientData
    \/ UpdateFileSize
    \/ UpdateCrc
    \/ WriteFile
    \/ Reanonymize
    \/ VerifyAll
    \/ \E w \in {"orig", "anon"} :
          \/ ReaderReadFile(w)
          \/ ReaderParseSection(w)
          \/ ReaderExtract(w)

Spec == Init /\ [][Next]_vars

----------------------------------------------------------------------------
(* find_and_replace_text called directly on a buffer, as
   test_find_and_replace_text calls it *)

\* the bytes of the buffers, searches and replacements: NUL, "a", "b"
Alphabet == {0, 97, 98}

\* the byte sequences over the alphabet with lo to hi bytes
BytesOfLength(lo, hi) == UNION { [1..n -> Alphabet] : n \in lo..hi }

\* read_file has filled the buffer; the call has its arguments and no result
ReplaceInit ==
    /\ pc = "call"
    /\ original \in BytesOfLength(0, MaxBuffer)
    /\ data = original
    /\ call \in [search_bytes : BytesOfLength(1, MaxSearch),
                  replace_bytes : BytesOfLength(0, MaxSearch), count : {-1}]
    /\ anonymous_id = << >>
    /\ options = NoOptions
    /\ changes_made = << >>
    /\ tags_seen = << >>
    /\ output = << >>
    /\ with_original = FALSE
    /\ report = NewReport
    /\ readers = [orig |-> NewReader(<< >>), anon |-> NewReader(<< >>)]
    /\ rerun = NoRerun

\* count = anonymizer.find_and_replace_text(search_bytes, replace_bytes)
FindAndReplaceText ==
    /\ pc = "call"
    /\ LET r == find_and_replace_text(data, call.search_bytes, call.replace_bytes)
       IN  /\ data' = r.data
           /\ call' = [call EXCEPT !.count = r.count]
    /\ pc' = "returned"
    /\ UNCHANGED <<original, anonymous_id, changes_made, tags_seen, output,
                   with_original, report, readers, options, rerun>>

ReplaceSpec == ReplaceInit /\ [][FindAndReplaceText]_vars

----------------------------------------------------------------------------
(* What the specification says of a file, stated apart from the code *)

\* the sections of a buffer as the section table walk from offset 6 yields
\* them: header [id:2][size:4][version][protocol] at the current offset
RECURSIVE SectionWalk(_, _)
SectionWalk(d, pointer) ==
    IF ~(pointer + 8 <= Len(d)) THEN << >>
    ELSE LET id   == U16LE(d, pointer)
             size == U32LE(d, pointer + 2)
         IN  IF id = 0 \/ size = 0 \/ pointer + size > Len(d) THEN << >>
             ELSE <<[id |-> id, first |-> pointer, last |-> pointer + size]>>
                      \o SectionWalk(d, pointer + size)

\* the tags of a Section 1 payload up to the terminator tag 255; inside tells
\* whether the declared length stays within the section
RECURSIVE TagWalk(_, _, _)
TagWalk(d, pointer, end) ==
    IF ~(pointer + 3 <= end) \/ d[pointer + 1] = 255 THEN << >>
    ELSE LET len == U16LE(d, pointer + 1)
         IN  <<[tag |-> d[pointer + 1], at |-> pointer, len |-> len,
                inside |-> pointer + 3 + len <= end]>>
                 \o (IF pointer + 3 + len <= end THEN TagWalk(d, pointer + 3 + len, end)
                     ELSE << >>)

Section1Tags(d) ==
    LET s1 == SelectSeq(SectionWalk(d, 6), LAMBDA x : x.id = 1)
    IN  IF s1 = << >> THEN << >> ELSE TagWalk(d, s1[1].first + 8, s1[1].last)

\* the tags of Section 1 of the input with one of the given ids and a value
\* that lies within the section
InputTags(ids) ==
    { t \in { Section1Tags(original)[k] : k \in 1..Len(Section1Tags(original)) } :
          t.tag \in ids /\ t.inside }

\* the value bytes of tag t in buffer d
ValueOf(d, t) == Slice(d, t.at + 3, t.at + 3 + t.len)

\* the anonymizer has run on the buffer
Anonymized == pc \in {"anonymized", "sized", "crc", "saved"}

\* a file is structurally valid in a layout with an hdr-byte section header
\* whose id field lies idoff bytes in: the size field is the length, the
\* sections tile the file, and every Section 1 is a chain of whole tags that
\* ends with the terminator
RECURSIVE TagsExact(_, _, _)
TagsExact(d, pointer, end) ==
    /\ pointer + 3 <= end
    /\ LET len == U16LE(d, pointer + 1)
       IN  IF d[pointer + 1] = 255 THEN pointer + 3 + len = end
           ELSE pointer + 3 + len <= end /\ TagsExact(d, pointer + 3 + len, end)

RECURSIVE SectionsExact(_, _, _, _, _)
SectionsExact(d, pointer, hdr, idoff, seen1) ==
    IF pointer = Len(d) THEN seen1
    ELSE /\ pointer + hdr <= Len(d)
         /\ LET id   == U16LE(d, pointer + idoff)
                size == U32LE(d, pointer + idoff + 2)
            IN  /\ id # 0
                /\ size >= hdr
                /\ pointer + size <= Len(d)
                /\ id = 1 => TagsExact(d, pointer + hdr, pointer + size)
                /\ SectionsExact(d, pointer + size, hdr, idoff, seen1 \/ id = 1)

StructurallyValid(d) ==
    /\ Len(d) >= 6
    /\ U32LE(d, 2) = Len(d)
    /\ SectionsExact(d, 6, 8, 0, FALSE) \/ SectionsExact(d, 6, 16, 2, FALSE)

\* the reference CRC-CCITT, bit-serial: the register starts at 0xFFFF; for
\* each message bit, most significant first, the register is shifted left by
\* one and 0x1021 is XORed in when the bit shifted out differs from the
\* message bit
RefBit(crc, bit) ==
    LET shifted == (crc * 2) % 65536
    IN  IF crc \div 32768 # bit THEN Xor(shifted, 4129) ELSE shifted

\* the bits k, k-1, .. 0 of a byte enter the register
RECURSIVE RefBits(_, _, _)
RefBits(crc, byte, k) ==
    IF k < 0 THEN crc
    ELSE LET next == RefBit(crc, (byte \div (2 ^ k)) % 2)
         IN  IF next < 0 THEN next ELSE RefBits(next, byte, k - 1)

\* the register after bytes lo..hi of d have entered it in order
RECURSIVE RefRange(_, _, _, _)
RefRange(d, lo, hi, crc) ==
    IF lo > hi THEN crc
    ELSE IF lo = hi THEN RefBits(crc, d[lo], 7)
    ELSE LET mid    == (lo + hi) \div 2
             before == RefRange(d, lo, mid, crc)
         IN  IF before < 0 THEN before ELSE RefRange(d, mid + 1, hi, before)

RefCrc(d) == RefRange(d, 1, Len(d), 65535)

\* the offsets of the occurrences of s in d that a scan from the left meets,
\* each occurrence starting at or after the end of the one before
RECURSIVE Occurrences(_, _, _)
Occurrences(d, s, from) ==
    LET hits == { i \in from..(Len(d) - Len(s)) : SubSeq(d, i + 1, i + Len(s)) = s }
    IN  IF hits = {} THEN {}
        ELSE LET i == CHOOSE x \in hits : \A y \in hits : x <= y
             IN  {i} \cup Occurrences(d, s, i + Len(s))

\* byte k (from 1) of a replacement cut or NUL-padded to the search's length
PaddedByte(replace, k) == IF k <= Len(replace) THEN replace[k] ELSE 0

\* the sections of a buffer in the layout with a 16-byte section header:
\* [crc:2][id:2][size:4][version][protocol][reserved:6]
RECURSIVE RealSectionWalk(_, _)
RealSectionWalk(d, pointer) ==
    IF ~(pointer + 16 <= Len(d)) THEN << >>
    ELSE LET id   == U16LE(d, pointer + 2)
             size == U32LE(d, pointer + 4)
         IN  IF id = 0 \/ size = 0 \/ pointer + size > Len(d) THEN << >>
             ELSE <<[id |-> id, first |-> pointer, last |-> pointer + size]>>
                      \o RealSectionWalk(d, pointer + size)

\* the tags of a Section 1 payload that may be processed: those before the
\* terminator whose declared length stays within the payload
ValidTags(d, first, end) == SelectSeq(TagWalk(d, first, end), LAMBDA t : t.inside)

\* whether some tag that may be processed has the given id
HasValidTag(d, first, end, id) ==
    \E k \in 1..Len(ValidTags(d, first, end)) : ValidTags(d, first, end)[k].tag = id

\* the tags check_section_1_tags hands to _verify_tag: those of the Section 1
\* it finds, up to the terminator, that start more than 3 bytes before the
\* section's end
VerifiedTags(d) ==
    LET v == Section1Pointer(d, 6)
    IN  IF v = -1 THEN << >>
        ELSE LET end == v + U32LE(d, v + 4)
             IN  SelectSeq(TagWalk(d, v + 16, Min(end, Len(d))),
                           LAMBDA t : t.at < end - 3)

\* the text of a value: the bytes below 128, without the trailing NULs
RECURSIVE NameText(_)
NameText(v) ==
    IF v = << >> THEN << >>
    ELSE IF v[Len(v)] = 0 \/ v[Len(v)] >= 128 THEN NameText(SubSeq(v, 1, Len(v) - 1))
    ELSE SelectSeq(v, LAMBDA b : b < 128)

\* a value that reads as a real name: non-empty, longer than 2 characters,
\* letters only, and without the text REMOVED
ReadsAsRealName(value) ==
    LET text == NameText(value)
    IN  /\ Len(text) > 2
        /\ \A i \in 1..Len(text) : text[i] \in (65..90) \cup (97..122)
        /\ \A i \in 1..(Len(text) - 6) :
               SubSeq(text, i, i + 6) # <<82, 69, 77, 79, 86, 69, 68>>

\* an advisory tag that does not hold its anonymized value: an acquisition
\* date other than {2000, 1, 1}, an acquisition time other than {0, 0, 0},
\* free text or medical history with a non-zero byte
NotSentinel(d, t) ==
    CASE t.tag = 25 -> Slice(ValueOf(d, t), 0, 4) # <<7, 208, 1, 1>>
      [] t.tag = 26 -> Slice(ValueOf(d, t), 0, 3) # <<0, 0, 0>>
      [] OTHER      -> \E i \in 1..Len(ValueOf(d, t)) : ValueOf(d, t)[i] # 0

\* a tag the reader knows whose value has the bytes its field needs: text
\* (2, 8, 9), a date with a year (10, 25), a device id and type (14), a
\* time (26)
WellFormedField(d, t) ==
    CASE t.tag \in {2, 8, 9} -> TRUE
      [] t.tag \in {10, 25} -> t.len >= 4 /\ U16BE(ValueOf(d, t), 0) > 0
      [] t.tag \in {14, 26} -> t.len >= 3
      [] OTHER               -> FALSE

\* the key of the reader's record that a tag id is decoded into, or None
\* when that key was never set
FieldOf(R, id) ==
    CASE id = 2  -> R.patient_info.id
      [] id = 8  -> R.patient_info.last_name
      [] id = 9  -> R.patient_info.first_name
      [] id = 10 -> R.patient_info.birth_date
      [] id = 14 -> R.device_info.id
      [] id = 25 -> R.device_info.acquisition_date
      [] id = 26 -> R.device_info.acquisition_time

\* the sum of the k signed 8-bit deltas at offsets p .. p + k - 1
RECURSIVE DeltaSum(_, _, _)
DeltaSum(d, p, k) ==
    IF k = 0 THEN 0 ELSE DeltaSum(d, p, k - 1) + Signed8(d[p + k])

\* the payload of section id as the reader stored it
SectionPayload(R, id) ==
    Slice(R.data, R.sections[id].data_start,
          R.sections[id].data_start - 8 + R.sections[id].size)

\* the offsets in a Section 6 payload at which the leads start, the first at
\* offset 10 and each one where the lead before it ended
RECURSIVE LeadStarts(_, _, _, _)
LeadStarts(d, pointer, compression, todo) ==
    IF todo = 0 THEN << >>
    ELSE <<pointer>> \o LeadStarts(d, DecodeLead(d, pointer, compression).pointer,
                                   compression, todo - 1)

\* the lead count of a Section 6 payload, clamped to 1..12
LeadCount(d) == IF U16LE(d, 6) = 0 \/ U16LE(d, 6) > 12 THEN 12 ELSE U16LE(d, 6)

----------------------------------------------------------------------------
(* The claims *)

\* C1: whenever anonymize has completed, the u32 LE at bytes [2,6) of the
\* output equals len(output) and the u16 LE at bytes [0,2) equals
\* crc16(output[2:]), whatever the input's length and contents
HeaderConsistent ==
    pc = "saved" =>
        /\ Len(output) >= 6
        /\ U32LE(output, 2) = Len(output)
        /\ U16LE(output, 0) = calculate_crc_ccitt(Slice(output, 2, Len(output)))

\* C2: no byte inside the byte range of Section 3 or Section 6 of the input
\* differs between the input and the anonymized output
SignalSectionsUntouched ==
    pc = "saved" =>
        \A k \in 1..Len(SectionWalk(original, 6)) :
            LET s == SectionWalk(original, 6)[k]
            IN  s.id \in {3, 6} =>
                    \A i \in (s.first + 1)..s.last :
                        i <= Len(output) /\ output[i] = original[i]

\* C3: for a structurally valid input with a parseable Section 1, the
\* verifier run on the output with the input supplied as the original
\* records no issue
VerifierFindsNoIssue ==
    (pc = "verified" /\ with_original /\ StructurallyValid(original)) =>
        report.issues = << >>

\* C4: when the input is structurally valid and its Section 6 decodes,
\* reading the output recovers the same waveform: the same leads, samples
\* per lead, sample values and sampling rate
WaveformRoundTrip ==
    (pc = "done" /\ StructurallyValid(original)
                 /\ readers.orig.ecg_data.kind = "decoded") =>
        /\ readers.anon.ecg_data = readers.orig.ecg_data
        /\ readers.anon.sampling_rate = readers.orig.sampling_rate

\* C5: anonymize_patient_data preserves the length of the buffer and the
\* 2-byte length field of every tag, also when a tag declares a length that
\* runs past the end of the buffer
LengthPreserved ==
    Anonymized =>
        /\ Len(data) = Len(original)
        /\ \A k \in 1..Len(Section1Tags(original)) :
               LET t == Section1Tags(original)[k]
               IN  U16LE(data, t.at + 1) = t.len

\* C6: the value tag 2 held in the input occurs nowhere in the output,
\* neither as ASCII nor as UTF-16LE
PatientIdGone ==
    pc = "saved" =>
        \A t \in InputTags({2}) :
            t.len > 0 =>
                /\ ~Contains(output, ValueOf(original, t))
                /\ ~Contains(output, Utf16le(ValueOf(original, t)))

RemovedText(n) == [i \in 1..n |-> <<82, 69, 77, 79, 86, 69, 68>>[((i - 1) % 7) + 1]]

\* C8: every name tag (ids 0, 1, 6, 7, 8, 9) of length L holds the text
\* REMOVED repeated and truncated to L bytes after anonymization
NameTagsRemoved ==
    Anonymized =>
        \A t \in InputTags({0, 1, 6, 7, 8, 9}) : ValueOf(data, t) = RemovedText(t.len)

\* C9: every date-of-birth tag (id 5 or 10) holds year 1900 (u16 BE),
\* month 1, day 1 after anonymization
BirthDateSentinel ==
    Anonymized =>
        \A t \in InputTags({5, 10}) :
            t.len >= 4 => Slice(data, t.at + 3, t.at + 7) = <<7, 108, 1, 1>>

\* C10: every value byte of the physician tag (21) and of the technician
\* tag (22) is zero after anonymization
PhysicianTechnicianZeroed ==
    Anonymized =>
        \A t \in InputTags({21, 22}) :
            \A i \in 1..t.len : ValueOf(data, t)[i] = 0

\* C11: each configuration flag gates exactly its own tags. The constructor
\* accepts anonymize_datetime and anonymize_freetext, both default to true;
\* with anonymize_datetime true tag 25 becomes {2000, 1, 1} and tag 26
\* becomes {0, 0, 0}, with it false both keep their bytes; with
\* anonymize_freetext true every value byte of tags 30 and 31 becomes zero,
\* with it false both keep their bytes
ConfigFlagsGateTags ==
    /\ pc # "type_error"
    /\ Anonymized =>
           /\ \A t \in InputTags({25}) :
                  t.len >= 4 =>
                      IF options.anonymize_datetime
                      THEN Slice(data, t.at + 3, t.at + 7) = <<7, 208, 1, 1>>
                      ELSE ValueOf(data, t) = ValueOf(original, t)
           /\ \A t \in InputTags({26}) :
                  t.len >= 3 =>
                      IF options.anonymize_datetime
                      THEN Slice(data, t.at + 3, t.at + 6) = <<0, 0, 0>>
                      ELSE ValueOf(data, t) = ValueOf(original, t)
           /\ \A t \in InputTags({30, 31}) :
                  IF options.anonymize_freetext
                  THEN \A i \in 1..t.len : ValueOf(data, t)[i] = 0
                  ELSE ValueOf(data, t) = ValueOf(original, t)

\* C12: anonymizing the output of an anonymization again, with the same
\* anonymous_id, records no change for the patient id, the names and the
\* date of birth: a field already at its sentinel value is not a change
ChangeLogIdempotent ==
    pc = "rerun" =>
        \A k \in 1..Len(rerun.changes_made) :
            ~(/\ rerun.changes_made[k].what = "Anonymized"
              /\ rerun.changes_made[k].arg \in {2, 6, 7, 8, 9, 10})

\* C13: calculate_crc_ccitt equals the reference CRC-CCITT on every byte
\* sequence it is applied to: the result lies in 0..65535, it is 0xFFFF for
\* the empty sequence and 0x29B1 for "123456789" (the check value of the
\* reference), and for the buffer update_crc checksums it is the reference
\* value, which is what bytes [0,2) then hold
CrcMatchesReference ==
    /\ calculate_crc_ccitt(<< >>) = 65535
    /\ calculate_crc_ccitt(Digits(<<1, 2, 3, 4, 5, 6, 7, 8, 9>>)) = 10673
    /\ pc = "crc" =>
           LET body == Slice(data, 2, Len(data))
               crc  == calculate_crc_ccitt(body)
           IN  /\ crc \in 0..65535
               /\ crc = RefCrc(body)
               /\ U16LE(data, 0) = crc

\* C13 happens: update_crc has checksummed a buffer with sections, and the
\* register ended with its high bit set
CrcComputed ==
    /\ pc = "crc"
    /\ Len(data) > 40
    /\ U16LE(data, 0) >= 32768
    /\ U16LE(data, 0) = RefCrc(Slice(data, 2, Len(data)))

\* C14: in every run of anonymize the file-size write comes before the CRC
\* write and both come after every field overwrite and search-and-replace:
\* the statement after anonymization leaves the bytes from offset 6 on as
\* they are, the statement after it changes nothing from offset 2 on and
\* leaves bytes [0,2) holding the CRC of the rest, and between that write
\* and the writing of the file no byte changes, the file being the buffer
FinalizationOrder ==
    [][ /\ pc = "anonymized" =>
               Slice(data', 6, Len(data')) = Slice(data, 6, Len(data))
        /\ pc = "sized" =>
               /\ Slice(data', 2, Len(data')) = Slice(data, 2, Len(data))
               /\ U16LE(data', 0) = calculate_crc_ccitt(Slice(data', 2, Len(data')))
        /\ pc = "crc" => (data' = data /\ output' = data)
        /\ pc' \in {"sized", "crc", "saved"} => pc' = AfterStatement(pc)
      ]_vars

\* C14 happens: the field overwrites changed the length of the buffer, and
\* the file written holds the new length in bytes [2,6) and, in bytes
\* [0,2), the CRC of the bytes that follow
FinalizedAfterOverwrite ==
    /\ pc = "saved"
    /\ Len(output) > Len(original)
    /\ Len(original) >= 6
    /\ output = data
    /\ U32LE(output, 2) = Len(output)
    /\ U16LE(output, 0) = calculate_crc_ccitt(Slice(output, 2, Len(output)))

\* C15: every section-table walk terminates on every finite buffer: at
\* every step it moves forward or stops, also when a section header declares
\* size 0 with a non-zero id. The anonymizer's Section 1 locator and the
\* verifier's section search run to their end within one step of the
\* workflow; the reader's walk takes one step per section header, and each
\* such step must leave the loop or move the pointer forward
SectionWalksProgress ==
    \A w \in {"orig", "anon"} :
        (/\ pc = During(w)
         /\ readers[w].state = "sections"
         /\ readers[w].pointer < Len(readers[w].data) - 10) =>
            \A noise \in Noises :
                LET R == parse_section(readers[w], noise)
                IN  R.state # "sections" \/ R.pointer > readers[w].pointer

\* C16: on a buffer shorter than 6 bytes, the empty buffer included, parse
\* and anonymize short-circuit: the reader stops at the header and parses
\* no section, and the anonymizer does not grow the buffer by writing the
\* file-size or the CRC field
ShortBufferShortCircuits ==
    Len(original) < 6 =>
        /\ Anonymized => Len(data) = Len(original)
        /\ pc = "saved" => Len(output) = Len(original)
        /\ pc \in {"parsed_orig", "parsing_anon", "done"} =>
               /\ readers.orig.state = "raised"
               /\ readers.orig.sections = << >>

\* C17: verify_all returns pass exactly when the issues list is empty after
\* all checks have run: warnings alone, however many, never make it fail,
\* and an issue from any one check (Section 1 tags, names, SSN shapes,
\* e-mail addresses, signal comparison) always does
VerdictIffNoIssue ==
    (pc = "verified" /\ ~report.raised) =>
        LET orig == IF with_original THEN original ELSE << >>
            Failing(r) == r.issues # << >> => report.result = "fail"
        IN  /\ report.result \in {"pass", "fail"}
            /\ report.result = "pass" <=> report.issues = << >>
            /\ Failing(check_section_1_tags(output, NewReport))
            /\ Failing(check_for_real_names(output, NewReport))
            /\ Failing(check_for_ssn_patterns(output, NewReport))
            /\ Failing(check_for_email_addresses(output, NewReport))
            /\ Failing(check_signal_data_unchanged(output, orig, NewReport))

\* C17 happens: all checks ran, two or more warnings and no issue were
\* recorded, and the verdict is pass
WarningsOnlyPass ==
    /\ pc = "verified"
    /\ ~report.raised
    /\ Len(report.warnings) >= 2
    /\ report.issues = << >>
    /\ report.result = "pass"

\* C18: when the original is supplied, for each of Section 3 and Section 6
\* that the verifier's section search locates in the original, an issue is
\* recorded unless the anonymized buffer holds that section with equal
\* bytes; when no original is supplied the check records nothing
SignalIssueUnlessEqual ==
    pc = "verified" /\ ~report.raised =>
        LET before == check_for_numeric_ids(output,
                      check_for_email_addresses(output,
                      check_for_phone_numbers(output,
                      check_for_ssn_patterns(output,
                      check_for_real_dates(output,
                      check_for_real_names(output,
                      check_section_1_tags(output, NewReport)))))))
            Modified(id) ==
                \E k \in 1..Len(report.issues) :
                    report.issues[k] = Finding("Section modified", id)
        IN  IF with_original /\ original # << >>
            THEN \A id \in {3, 6} :
                     find_section(original, id) # << >> =>
                         (Modified(id) <=> find_section(output, id) # find_section(original, id))
            ELSE /\ report.issues = before.issues
                 /\ report.warnings = before.warnings
                 /\ \A k \in 1..Len(report.passed) :
                        report.passed[k].what # "Signal data preserved"

\* C19: after read_file completes the waveform is never null or empty; when
\* Section 6 is absent, unrecoverable or decodes to nothing, the reader
\* holds the generated placeholder: 12 leads of 10 * sampling_rate samples
\* under the canonical 12 lead names
PlaceholderWaveform ==
    \A w \in {"orig", "anon"} :
        readers[w].state = "done" =>
            LET R == readers[w]
            IN  /\ R.ecg_data.kind # "none"
                /\ R.ecg_data.nrows > 0 /\ R.ecg_data.ncols > 0
                /\ R.ecg_data.kind = "synthetic" =>
                       /\ R.ecg_data.nrows = 12
                       /\ R.ecg_data.ncols = 10 * R.sampling_rate
                       /\ R.leads = lead_names

\* C20: after find_and_replace_text(search, replace) returns, for any buffer
\* and any non-empty search, search occurs nowhere in the buffer, the count
\* returned is the number of occurrences overwritten (greater than 0 when
\* search occurred), and the length of the buffer is unchanged
ReplaceRemovesSearch ==
    pc = "returned" =>
        /\ ~Contains(data, call.search_bytes)
        /\ call.count = Cardinality(Occurrences(original, call.search_bytes, 0))
        /\ Contains(original, call.search_bytes) => call.count > 0
        /\ Len(data) = Len(original)

\* C20 as amended: the length of the buffer is unchanged; the count is the
\* number of occurrences a scan from the left meets, greater than 0 exactly
\* when search occurred; each of them holds replace cut or NUL-padded to
\* the length of search and every other byte is as before; and search
\* occurs nowhere in the buffer when no byte of that replacement is a byte
\* of search
ReplaceOverwritesOccurrences ==
    pc = "returned" =>
        LET search == call.search_bytes
            n      == Len(search)
            occ    == Occurrences(original, search, 0)
        IN  /\ Len(data) = Len(original)
            /\ call.count = Cardinality(occ)
            /\ call.count > 0 <=> Contains(original, search)
            /\ \A i \in 1..Len(original) :
                   IF \E o \in occ : o < i /\ i <= o + n
                   THEN \E o \in occ :
                            /\ o < i /\ i <= o + n
                            /\ data[i] = PaddedByte(call.replace_bytes, i - o)
                   ELSE data[i] = original[i]
            /\ (\A k \in 1..n : \A j \in 1..n :
                    PaddedByte(call.replace_bytes, k) # search[j])
                   => ~Contains(data, search)

\* C20 as amended happens: two occurrences were overwritten with a shorter
\* replacement, NUL-padded, and search is gone
ReplacedTwicePadded ==
    /\ pc = "returned"
    /\ call.count = 2
    /\ Len(call.search_bytes) = 2
    /\ Len(call.replace_bytes) = 1
    /\ call.replace_bytes[1] # 0
    /\ ~Contains(data, call.search_bytes)
    /\ data # original

\* C21: in delta mode (compression flag nonzero) a lead with declared sample
\* count n decodes to at most n samples; sample 0 is the signed 16-bit
\* little-endian reference and sample k is the reference plus the sum of the
\* first k signed 8-bit deltas; the sequence is shorter than n only where the
\* payload ends; a section of one lead has these samples as its waveform
DeltaDecoding ==
    \A w \in {"orig", "anon"} :
        6 \in DOMAIN readers[w].sections =>
            LET d == SectionPayload(readers[w], 6)
            IN  (Len(d) >= 10 /\ d[6] # 0) =>
                    \A i \in 1..LeadCount(d) :
                        LET p == LeadStarts(d, 10, d[6], LeadCount(d))[i]
                            n == U32LE(d, p)
                            s == DecodeLead(d, p, d[6]).samples
                        IN  p + 4 <= Len(d) =>
                                /\ Len(s) <= n
                                /\ \A k \in 1..Len(s) :
                                       s[k] = Signed16(U16LE(d, p + 4))
                                                  + DeltaSum(d, p + 6, k - 1)
                                /\ Len(s) < n => p + 6 + Len(s) > Len(d)
                                /\ (LeadCount(d) = 1 /\ s # << >>) =>
                                       readers[w].ecg_data.rows = <<s>>

\* C22: in every component's tag walk over Section 1 no tag at or after a tag
\* with id 255 is processed, and no tag whose declared length extends past
\* the end of the section payload is decoded, overwritten or verified. Every
\* field of the reader's record comes from a tag that may be processed; every
\* tag the anonymizer overwrites ends within Section 1, so no byte beyond its
\* end is written; the verifier verifies no more tags than may be processed
TagWalksBounded ==
    /\ \A w \in {"orig", "anon"} :
           1 \in DOMAIN readers[w].sections =>
               LET d == SectionPayload(readers[w], 1)
                   P == readers[w].patient_info
                   D == readers[w].device_info
               IN  /\ P.id # None => HasValidTag(d, 0, Len(d), 2)
                   /\ P.last_name # None => HasValidTag(d, 0, Len(d), 8)
                   /\ P.first_name # None => HasValidTag(d, 0, Len(d), 9)
                   /\ P.birth_date # None => HasValidTag(d, 0, Len(d), 10)
                   /\ D.id # None => HasValidTag(d, 0, Len(d), 14)
                   /\ D.acquisition_date # None => HasValidTag(d, 0, Len(d), 25)
                   /\ D.acquisition_time # None => HasValidTag(d, 0, Len(d), 26)
    /\ Anonymized =>
           LET s1 == SelectSeq(SectionWalk(original, 6), LAMBDA x : x.id = 1)
           IN  s1 # << >> =>
                   /\ \A k \in 1..Len(tags_seen) :
                          tags_seen[k].tag \in sensitive_tags =>
                              tags_seen[k].at + 3 + tags_seen[k].len <= s1[1].last
                   /\ Len(tags_seen) <= Len(ValidTags(original, s1[1].first + 8, s1[1].last))
    /\ (pc = "verified" /\ ~report.raised) =>
           LET s1 == SelectSeq(RealSectionWalk(output, 6), LAMBDA x : x.id = 1)
           IN  s1 # << >> =>
                   \A k \in 1..Len(report.passed) :
                       report.passed[k].what = "Section 1 tags verified" =>
                           report.passed[k].at
                               <= Len(ValidTags(output, s1[1].first + 16, s1[1].last))

\* C23: reader, anonymizer and verifier use one section-header layout: on
\* every buffer they read a section's id and size at the same offsets and
\* start the Section 1 tag walk at the same offset, so they locate the same
\* Section 1 tags or all find none. On the output, the verifier finds
\* Section 1 exactly when the reader does, and its tag walk starts where the
\* reader's payload starts; on the input, the first tag the anonymizer
\* visits lies at the start of the payload the reader decodes
OneSectionLayout ==
    (pc = "done" /\ ~report.raised) =>
        LET v == Section1Pointer(output, 6)
        IN  /\ v # -1 <=> 1 \in DOMAIN readers.anon.sections
            /\ v # -1 => v + 16 = readers.anon.sections[1].data_start
            /\ tags_seen # << >> =>
                   /\ 1 \in DOMAIN readers.orig.sections
                   /\ tags_seen[1].at = readers.orig.sections[1].data_start

\* C24: for a name tag (0, 1, 6, 7, 8, 9) the verifier records an issue
\* exactly when the decoded value, after stripping trailing NULs, is
\* non-empty, purely alphabetic, longer than 2 characters and does not
\* contain REMOVED; in every other case it records no issue for that tag:
\* the issues of a name tag id are as many as the verified tags of that id
\* whose value reads as a real name, and all of them are name issues
NameIssuePolicy ==
    (pc = "verified" /\ ~report.raised) =>
        \A id \in {0, 1, 6, 7, 8, 9} :
            LET tags == VerifiedTags(output)
            IN  /\ Cardinality({ k \in 1..Len(report.issues) :
                                   report.issues[k] = Finding("possible real name", id) })
                       = Cardinality({ k \in 1..Len(tags) :
                                         /\ tags[k].tag = id
                                         /\ ReadsAsRealName(ValueOf(output, tags[k])) })
                /\ \A k \in 1..Len(report.issues) :
                       report.issues[k].at = id =>
                           report.issues[k].what
                               \notin {"contains real ID", "real DOB", "contains text"}

\* C24 happens: tag 0 = "Ann" was verified and has an issue, tag 1 = "R2D2"
\* was verified and has none
NameIssueRecorded ==
    /\ pc = "verified"
    /\ ~report.raised
    /\ \E k \in 1..Len(VerifiedTags(output)) :
           /\ VerifiedTags(output)[k].tag = 0
           /\ ValueOf(output, VerifiedTags(output)[k]) = <<65, 110, 110>>
    /\ \E k \in 1..Len(VerifiedTags(output)) :
           /\ VerifiedTags(output)[k].tag = 1
           /\ ValueOf(output, VerifiedTags(output)[k]) = <<82, 50, 68, 50>>
    /\ \E k \in 1..Len(report.issues) :
           report.issues[k] = Finding("possible real name", 0)
    /\ \A k \in 1..Len(report.issues) : report.issues[k].at # 1

\* C25: acquisition date (25), acquisition time (26), free text (30) and
\* medical history (31) are advisory: a non-sentinel or non-zero value in
\* any of them adds a warning and never an issue, so the warnings of such a
\* tag id are as many as the verified tags of that id that do not hold the
\* anonymized value, and no tag issue names the id; and a file whose tag 2
\* starts with ANON, whose date of birth is {1900, 1, 1} and whose free text
\* is non-zero verifies with zero issues and exactly one warning
AdvisoryTagsWarn ==
    (pc = "verified" /\ ~report.raised) =>
        LET tags == VerifiedTags(output)
        IN  /\ \A id \in {25, 26, 30, 31} :
                   /\ Cardinality({ k \in 1..Len(report.warnings) :
                                      /\ report.warnings[k].at = id
                                      /\ report.warnings[k].what \in
                                             {"non-standard date", "non-standard time",
                                              "contains data (may be intentional)"} })
                          = Cardinality({ k \in 1..Len(tags) :
                                            tags[k].tag = id /\ NotSentinel(output, tags[k]) })
                   /\ \A k \in 1..Len(report.issues) :
                          report.issues[k].at = id =>
                              report.issues[k].what
                                  \notin {"contains real ID", "possible real name",
                                          "real DOB", "contains text"}
            /\ (/\ Len(tags) = 3
                 /\ tags[1].tag = 2
                 /\ Slice(ValueOf(output, tags[1]), 0, 4) = AnonBytes
                 /\ tags[2].tag = 10
                 /\ ValueOf(output, tags[2]) = <<7, 108, 1, 1>>
                 /\ tags[3].tag = 30
                 /\ NotSentinel(output, tags[3])) =>
                    /\ report.issues = << >>
                    /\ Len(report.warnings) = 1

\* C26: in the reader's Section 1 decode a decoding failure in one field (a
\* date tag whose value is shorter than 4 bytes) skips only that field:
\* every well-formed known tag of the section, before or after it, is
\* decoded into the patient/device record, and unknown tags are skipped
\* without error
FieldFailureSkipsField ==
    \A w \in {"orig", "anon"} :
        1 \in DOMAIN readers[w].sections =>
            LET d    == SectionPayload(readers[w], 1)
                tags == ValidTags(d, 0, Len(d))
            IN  \A k \in 1..Len(tags) :
                    WellFormedField(d, tags[k]) => FieldOf(readers[w], tags[k].tag) # None

\* C27: after the reader has processed the section table of a buffer that
\* contains a Section 3 (well-formed, malformed, with lead count 0, or
\* occurring more than once), the lead list is non-empty, has at most 12
\* entries and is a prefix of the canonical order I, II, III, aVR, aVL, aVF,
\* V1 .. V6
LeadListCanonical ==
    \A w \in {"orig", "anon"} :
        (readers[w].state = "done" /\ 3 \in DOMAIN readers[w].sections) =>
            /\ readers[w].leads # << >>
            /\ Len(readers[w].leads) <= 12
            /\ readers[w].leads = SubSeq(lead_names, 1, Len(readers[w].leads))

\* C28: the decoded waveform matrix is rectangular and position-preserving:
\* it has one row per lead of Section 6 (lead count clamped to 1..12), and
\* row i holds exactly the samples decoded for the i-th lead followed by
\* zeros up to the longest lead's length, also when some lead decodes to
\* zero samples
MatrixPositionPreserving ==
    \A w \in {"orig", "anon"} :
        (6 \in DOMAIN readers[w].sections /\ readers[w].ecg_data.kind = "decoded") =>
            LET d        == SectionPayload(readers[w], 6)
                declared == U16LE(d, 6)
                n        == IF declared < 1 THEN 1 ELSE IF declared > 12 THEN 12 ELSE declared
                starts   == LeadStarts(d, 10, d[6], n)
                lens     == { Len(DecodeLead(d, starts[i], d[6]).samples) : i \in 1..n }
                longest  == CHOOSE m \in lens : \A x \in lens : x <= m
                E        == readers[w].ecg_data
            IN  /\ E.nrows = n
                /\ Len(E.rows) = n
                /\ E.ncols = longest
                /\ \A i \in 1..n :
                       LET samples == DecodeLead(d, starts[i], d[6]).samples
                       IN  E.rows[i] = samples \o Zeros(longest - Len(samples))

\* C29: the verifier never raises on its input: for every anonymized buffer
\* of any length, whatever section sizes and tag lengths it declares,
\* verify_all runs all checks to the end without an out-of-bounds read and
\* returns a report with its verdict; findings are only ever reported as
\* issues or warnings
VerifierNeverRaises ==
    pc = "verified" =>
        /\ ~report.raised
        /\ report.result \in {"pass", "fail"}
        /\ \E k \in 1..Len(report.passed) : report.passed[k].what = "sections validated"

\* C30: byte-level idempotence: for every input buffer and a fixed
\* anonymous_id, anonymizing the already anonymized output writes a file whose
\* bytes are identical to the first output, the file-size field and the CRC
\* field included
OutputIdempotent ==
    pc = "rerun" => rerun.data = output

====
